---- MODULE Spec2Model ----
(***************************************************************************)
(* A model of the rustboy Game Boy core: the MMU (address decoding, DIV /  *)
(* TIMA timers, OAM-DMA, joypad), the CPU's interrupt phase and the        *)
(* opcodes that drive it, the PPU's per-T-cycle state machine, and the     *)
(* MBC1 cartridge controller.                                              *)
(*                                                                         *)
(* The 64 KiB memory array is kept sparse: `memory` maps exactly the       *)
(* addresses whose byte is non-zero, every other byte reads 0, as in the   *)
(* array MMU::new zero-fills.                                              *)
(***************************************************************************)
EXTENDS Integers, Sequences, FiniteSets, TLC

VARIABLES mmu, cpu, ppu, cart, obs, steps

vars == <<mmu, cpu, ppu, cart, obs, steps>>

----------------------------------------------------------------------------
(* Bounds of the model                                                     *)

MaxTimerSteps == 20
MaxScenarioSteps == 110
MaxDmaSteps == 642
MaxRearmAt == 2
MaxCpuSteps == 10
MaxPpuTicks == 135900
MaxMainSteps == 60
MaxCartSteps == 4
MaxRequests == 1

----------------------------------------------------------------------------
(* Bit arithmetic on unsigned integers                                     *)

Byte == 0..255

RECURSIVE BitAnd(_, _)
BitAnd(a, b) ==
    IF a = 0 \/ b = 0 THEN 0
    ELSE (a % 2) * (b % 2) + 2 * BitAnd(a \div 2, b \div 2)

RECURSIVE BitOr(_, _)
BitOr(a, b) ==
    IF a = 0 THEN b
    ELSE IF b = 0 THEN a
    ELSE (IF a % 2 = 1 \/ b % 2 = 1 THEN 1 ELSE 0) + 2 * BitOr(a \div 2, b \div 2)

Shr(a, n) == a \div (2 ^ n)

is_bit_set(value, bit) == Shr(value, bit) % 2 = 1

----------------------------------------------------------------------------
(* Joypad                                                                  *)

Joypad_new == \hFF

Joypad_read(j, r_joypad) ==
    BitOr(BitAnd(r_joypad, \hF0),
          IF ~is_bit_set(r_joypad, 4) /\ ~is_bit_set(r_joypad, 5)
            THEN BitAnd(\h0F, BitOr(j, Shr(j, 4)))
          ELSE IF ~is_bit_set(r_joypad, 4) /\ is_bit_set(r_joypad, 5)
            THEN BitAnd(\h0F, Shr(j, 4))
          ELSE IF is_bit_set(r_joypad, 4) /\ ~is_bit_set(r_joypad, 5)
            THEN BitAnd(\h0F, j)
          ELSE \h0F)

\* Buttons by bit: A 0, B 1, SELECT 2, START 3, RIGHT 4, LEFT 5, UP 6, DOWN 7.
\* pressed clears the button's bit and tells whether it was set.
\* Button::UNKNOWN has no bit: pressed answers false and released does nothing.
UNKNOWN == 8

Joypad_pressed(j, button) ==
    IF button = UNKNOWN THEN [joypad |-> j, changed |-> FALSE]
    ELSE IF ~is_bit_set(j, button) THEN [joypad |-> j, changed |-> FALSE]
    ELSE [joypad |-> j - 2 ^ button, changed |-> TRUE]

Joypad_released(j, button) ==
    IF button = UNKNOWN THEN j ELSE BitOr(j, 2 ^ button)

----------------------------------------------------------------------------
(* MMU                                                                     *)

IO_JOYP == \hFF00
IO_DIV  == \hFF04
IO_TIMA == \hFF05
IO_TMA  == \hFF06
IO_TAC  == \hFF07
IO_IF   == \hFF0F
IO_DMA  == \hFF46
IO_IE   == \hFFFF
OAM_BASE == \hFE00
OAM_SIZE == \hA0
DMA_CYCLES_short == \h027F
DMA_CYCLES == \h0280

\* The registers MMU::new sets after zero-filling the array.
BootRegisters ==
    (\hFF00 :> \hCF) @@ (\hFF02 :> \h7E) @@ (\hFF04 :> \hAB) @@
    (\hFF07 :> \hF8) @@ (\hFF0F :> \hE1) @@ (\hFF10 :> \h80) @@
    (\hFF11 :> \hBF) @@ (\hFF12 :> \hF3) @@ (\hFF13 :> \hFF) @@
    (\hFF14 :> \hBF) @@ (\hFF16 :> \h3F) @@ (\hFF18 :> \hFF) @@
    (\hFF19 :> \hBF) @@ (\hFF1A :> \h7F) @@ (\hFF1B :> \hFF) @@
    (\hFF1C :> \h9F) @@ (\hFF1D :> \hFF) @@ (\hFF1E :> \hBF) @@
    (\hFF20 :> \hFF) @@ (\hFF23 :> \hBF) @@ (\hFF24 :> \h77) @@
    (\hFF25 :> \hF3) @@ (\hFF26 :> \hF1) @@ (\hFF40 :> \h91) @@
    (\hFF41 :> \h85) @@ (\hFF46 :> \hFF) @@ (\hFF47 :> \hFC)

\* Keeps only the non-zero bytes of a map from addresses to bytes.
Sparse(f) == [a \in {b \in DOMAIN f : f[b] # 0} |-> f[a]]

\* memory[0x0000..0x8000] is a copy of the cartridge image `cartridge`
\* (a map from the addresses of its non-zero bytes below 0x8000).
MMU_new(cartridge) ==
    [ memory             |-> BootRegisters @@ Sparse(cartridge),
      div_counter        |-> \hABCC,
      prev_and_result    |-> FALSE,
      dma_cycles_counter |-> 0,
      joypad             |-> Joypad_new ]

\* self.memory[a]
MemAt(m, a) == IF a \in DOMAIN m.memory THEN m.memory[a] ELSE 0

\* self.memory[a] = v
SetMem(m, a, v) ==
    [m EXCEPT !.memory =
        IF v = 0
          THEN [b \in (DOMAIN m.memory) \ {a} |-> m.memory[b]]
          ELSE [b \in (DOMAIN m.memory) \cup {a} |->
                    IF b = a THEN v ELSE m.memory[b]]]

read_byte(m, address) ==
    IF address >= \hA000 /\ address < \hC000 THEN 0
    ELSE IF address >= \hE000 /\ address < \hFE00 THEN MemAt(m, address - \h2000)
    ELSE IF address >= \hFEA0 /\ address < \hFF00 THEN 0
    ELSE IF address = IO_JOYP THEN Joypad_read(m.joypad, MemAt(m, IO_JOYP))
    ELSE IF address = IO_DIV THEN Shr(m.div_counter, 8)
    ELSE MemAt(m, address)

\* write_byte taking the value written to FF04 as the counter's high byte.
write_byte_div_loaded(m, address, value) ==
    LET m1 == IF address = IO_DMA
                THEN [m EXCEPT !.dma_cycles_counter = DMA_CYCLES]
                ELSE m
    IN  IF address < \h8000 THEN m1
        ELSE IF address >= \hA000 /\ address < \hC000 THEN m1
        ELSE IF address >= \hE000 /\ address < \hFE00
          THEN SetMem(m1, address - \h2000, value)
        ELSE IF address >= \hFEA0 /\ address < \hFF00 THEN m1
        ELSE IF address = IO_JOYP
          THEN SetMem(m1, address,
                      BitOr(BitAnd(MemAt(m1, address), \hCF), BitAnd(value, \h30)))
        ELSE IF address = IO_DIV THEN [m1 EXCEPT !.div_counter = 256 * value]
        ELSE SetMem(m1, address, value)

write_byte_echo_unmapped(m, address, value) ==
    LET m1 == IF address = IO_DMA
                THEN [m EXCEPT !.dma_cycles_counter = DMA_CYCLES]
                ELSE m
    IN  IF address < \h8000 THEN m1
        ELSE IF address >= \hA000 /\ address < \hC000 THEN m1
        ELSE IF address >= \hFEA0 /\ address < \hFF00 THEN m1
        ELSE IF address = IO_JOYP
          THEN SetMem(m1, address,
                      BitOr(BitAnd(MemAt(m1, address), \hCF), BitAnd(value, \h30)))
        ELSE IF address = IO_DIV THEN [m1 EXCEPT !.div_counter = 0]
        ELSE SetMem(m1, address, value)

write_byte(m, address, value) ==
    LET m1 == IF address = IO_DMA
                THEN [m EXCEPT !.dma_cycles_counter = DMA_CYCLES]
                ELSE m
    IN  IF address < \h8000 THEN m1
        ELSE IF address >= \hA000 /\ address < \hC000 THEN m1
        ELSE IF address >= \hE000 /\ address < \hFE00
          THEN SetMem(m1, address - \h2000, value)
        ELSE IF address >= \hFEA0 /\ address < \hFF00 THEN m1
        ELSE IF address = IO_JOYP
          THEN SetMem(m1, address,
                      BitOr(BitAnd(MemAt(m1, address), \hCF), BitAnd(value, \h30)))
        ELSE IF address = IO_DIV THEN [m1 EXCEPT !.div_counter = 0]
        ELSE SetMem(m1, address, value)

request_interrupt(m, bit) ==
    LET if_reg == read_byte(m, IO_IF)
    IN  write_byte(m, IO_IF, BitOr(if_reg, 2 ^ bit))

press_key_ignores_select(m, button) ==
    LET r == Joypad_pressed(m.joypad, button)
        m1 == [m EXCEPT !.joypad = r.joypad]
    IN  IF r.changed THEN request_interrupt(m1, 4) ELSE m1

press_key(m, button) ==
    LET r == Joypad_pressed(m.joypad, button)
        m1 == [m EXCEPT !.joypad = r.joypad]
    IN  IF r.changed /\ Shr(MemAt(m1, IO_JOYP), 4) % 4 < 3
          THEN request_interrupt(m1, 4)
          ELSE m1

release_key(m, button) == [m EXCEPT !.joypad = Joypad_released(@, button)]

\* memory.copy_within(x..(x + 0xA0), 0xFE00)
DmaCopy(m) ==
    LET x == MemAt(m, IO_DMA) * 256
        oam == OAM_BASE..(OAM_BASE + OAM_SIZE - 1)
        keep == (DOMAIN m.memory) \ oam
        got == {a \in oam : MemAt(m, x + (a - OAM_BASE)) # 0}
    IN  [m EXCEPT !.memory =
            [a \in keep \cup got |->
                IF a \in oam THEN MemAt(m, x + (a - OAM_BASE)) ELSE m.memory[a]]]

\* The DIV-counter bit the timer taps, by TAC & 3.
div_counter_bit(tac) ==
    CASE BitAnd(tac, 3) = 0 -> 9
      [] BitAnd(tac, 3) = 1 -> 3
      [] BitAnd(tac, 3) = 2 -> 5
      [] BitAnd(tac, 3) = 3 -> 7

TimerEdge_rising(prev_and_result, curr_and_result) ==
    ~prev_and_result /\ curr_and_result

\* The falling-edge test of update_timers.
TimerEdge(prev_and_result, curr_and_result) ==
    prev_and_result /\ ~curr_and_result

timer_count_no_reload(m) ==
    write_byte(m, IO_TIMA, (read_byte(m, IO_TIMA) + 1) % 256)

\* The body of the falling-edge branch of update_timers.
timer_count(m) ==
    LET tima == (read_byte(m, IO_TIMA) + 1) % 256
    IN  IF tima = 0
          THEN write_byte(request_interrupt(m, 2), IO_TIMA, read_byte(m, IO_TMA))
          ELSE write_byte(m, IO_TIMA, tima)

update_timers(m, cycles) ==
    LET m1 == IF m.dma_cycles_counter > 0
                THEN LET left == IF m.dma_cycles_counter > cycles
                                   THEN m.dma_cycles_counter - cycles ELSE 0
                         md == [m EXCEPT !.dma_cycles_counter = left]
                     IN  IF left = 0 THEN DmaCopy(md) ELSE md
                ELSE m
        m2 == [m1 EXCEPT !.div_counter = (m1.div_counter + cycles) % 65536]
        tac == read_byte(m2, IO_TAC)
        timer_enabled == is_bit_set(tac, 2)
        curr_div_bit_value == Shr(m2.div_counter, div_counter_bit(tac)) % 2 = 1
        curr_and_result == curr_div_bit_value /\ timer_enabled
        m3 == IF TimerEdge(m2.prev_and_result, curr_and_result)
                THEN timer_count(m2)
                ELSE m2
    IN  [m3 EXCEPT !.prev_and_result = curr_and_result]

----------------------------------------------------------------------------
(* CPU                                                                     *)

OP_NOP  == \h00
OP_LD_SP_D16 == \h31
OP_LD_A_D8 == \h3E
OP_HALT == \h76
OP_RETI == \hD9
OP_LDH_A8_A == \hE0
OP_DI   == \hF3
OP_EI   == \hFB

\* The part of the opcode match of execute_next this model covers.
ModelledOpcodes ==
    {OP_NOP, OP_LD_SP_D16, OP_LD_A_D8, OP_HALT, OP_RETI, OP_LDH_A8_A, OP_DI, OP_EI}

NoOpcode == -1

CPU_new ==
    [ a |-> \h01, f |-> \hB0, b |-> \h00, c |-> \h13, d |-> \h00, e |-> \hD8,
      h |-> \h01, l |-> \h4D, sp |-> \hFFFE, pc |-> \h0100,
      ime |-> FALSE, ime_scheduled |-> FALSE, low_power_mode |-> FALSE ]

get_byte(c, m) ==
    [ cpu  |-> [c EXCEPT !.pc = (c.pc + 1) % 65536],
      byte |-> read_byte(m, c.pc) ]

push_stack(c, m, val) ==
    LET sp1 == (c.sp - 1) % 65536
        m1  == write_byte(m, sp1, Shr(val, 8))
        sp2 == (sp1 - 1) % 65536
        m2  == write_byte(m1, sp2, val % 256)
    IN  [cpu |-> [c EXCEPT !.sp = sp2], mmu |-> m2]

pop_stack(c, m) ==
    LET lo == read_byte(m, c.sp)
        sp1 == (c.sp + 1) % 65536
        hi == read_byte(m, sp1)
        sp2 == (sp1 + 1) % 65536
    IN  [cpu |-> [c EXCEPT !.sp = sp2], val |-> lo + 256 * hi]

interrupt_arm_highest(x) ==
    IF is_bit_set(x, 4) THEN 4
    ELSE IF is_bit_set(x, 3) THEN 3
    ELSE IF is_bit_set(x, 2) THEN 2
    ELSE IF is_bit_set(x, 1) THEN 1
    ELSE 0

\* The arm of the match in execute_interrupts that x = IE & IF selects.
interrupt_arm(x) ==
    IF is_bit_set(x, 0) THEN 0
    ELSE IF is_bit_set(x, 1) THEN 1
    ELSE IF is_bit_set(x, 2) THEN 2
    ELSE IF is_bit_set(x, 3) THEN 3
    ELSE 4

\* The guard of the interrupt phase: 0x1F & ie_reg & if_reg > 0.
interrupt_pending(ie_reg, if_reg) ==
    BitAnd(\h1F, BitAnd(ie_reg, if_reg)) > 0

wake_needs_ime(c) ==
    IF c.ime THEN [c EXCEPT !.low_power_mode = FALSE] ELSE c

\* What the interrupt phase does to low_power_mode when an enabled
\* interrupt is pending (the assignment precedes the test of IME).
wake_on_pending(c) == [c EXCEPT !.low_power_mode = FALSE]

execute_interrupts(c, m) ==
    LET ie_reg == read_byte(m, IO_IE)
        if_reg == read_byte(m, IO_IF)
    IN  IF interrupt_pending(ie_reg, if_reg)
          THEN LET c1 == wake_on_pending(c)
               IN  IF c1.ime
                     THEN LET c2 == [c1 EXCEPT !.ime = FALSE]
                              p  == push_stack(c2, m, c2.pc)
                              k  == interrupt_arm(BitAnd(ie_reg, if_reg))
                          IN  [ cpu |-> [p.cpu EXCEPT !.pc = \h0040 + 8 * k],
                                mmu |-> write_byte(p.mmu, IO_IF,
                                                   BitAnd(if_reg, 255 - 2 ^ k)),
                                cycles |-> 20 ]
                     ELSE [cpu |-> c1, mmu |-> m, cycles |-> 0]
          ELSE [cpu |-> c, mmu |-> m, cycles |-> 0]

----------------------------------------------------------------------------
(* CPU: registers, flags and the carry helpers                             *)

af(c) == c.f + 256 * c.a
bc(c) == c.c + 256 * c.b
de(c) == c.e + 256 * c.d
hl(c) == c.l + 256 * c.h

\* set_af storing the low byte as it is.
set_af_unmasked(c, val) == [c EXCEPT !.f = val % 256, !.a = Shr(val, 8)]

\* self.f = (val & 0xFFF0) as u8; self.a = (val >> 8) as u8
set_af(c, val) ==
    [c EXCEPT !.f = BitAnd(val, \hFFF0) % 256, !.a = Shr(val, 8)]
set_bc(c, val) == [c EXCEPT !.c = val % 256, !.b = Shr(val, 8)]
set_de(c, val) == [c EXCEPT !.e = val % 256, !.d = Shr(val, 8)]
set_hl(c, val) == [c EXCEPT !.l = val % 256, !.h = Shr(val, 8)]

\* self.f |= 1 << bit, or self.f &= !(1 << bit)
set_flag(c, bit, flag) ==
    [c EXCEPT !.f = IF flag THEN BitOr(@, 2 ^ bit) ELSE BitAnd(@, 255 - 2 ^ bit)]

get_z_flag(c) == Shr(c.f, 7) % 2 = 1
set_z_flag(c, flag) == set_flag(c, 7, flag)
get_n_flag(c) == Shr(c.f, 6) % 2 = 1
set_n_flag(c, flag) == set_flag(c, 6, flag)
get_h_flag(c) == Shr(c.f, 5) % 2 = 1
set_h_flag(c, flag) == set_flag(c, 5, flag)
get_c_flag(c) == Shr(c.f, 4) % 2 = 1
set_c_flag(c, flag) == set_flag(c, 4, flag)

\* The four flags set in the order z, n, h, c (the calls commute: each
\* touches its own bit of f).
set_znhc(c, z, n, h, cy) ==
    set_c_flag(set_h_flag(set_n_flag(set_z_flag(c, z), n), h), cy)
set_znh(c, z, n, h) == set_h_flag(set_n_flag(set_z_flag(c, z), n), h)

\* impl Checks for u8
u8_check_half_carry_add(a, b, c) == (a % 16) + (b % 16) + (c % 16) > \h0F
\* check_half_carry_sub without the carry-in.
u8_check_half_carry_sub_no_carry(a, b, c) == (b % 16) > (a % 16)

u8_check_half_carry_sub(a, b, c) == (b % 16) + (c % 16) > (a % 16)
u8_check_carry_add(a, b, c) == a + b > 255 \/ ((a + b) % 256) + c > 255
u8_check_carry_sub(a, b, c) == IF a = b THEN c = 1 ELSE (b > a \/ b + c > a)

\* Whether a u8 sum inside the helpers exceeds 255 (an arithmetic overflow
\* of an unchecked +): b + c of check_carry_sub is evaluated only when
\* a # b and b <= a; the nibble sums never exceed 45.
u8_checks_overflow(a, b, c) ==
    \/ (a % 16) + (b % 16) + (c % 16) > 255
    \/ (a # b /\ ~(b > a) /\ b + c > 255)

\* impl Checks for u16 (the two helpers that are implemented)
u16_check_half_carry_add(a, b, c) == (a % 4096) + (b % 4096) + (c % 65536) > \h0FFF
u16_check_carry_add(a, b, c) == a + b > 65535 \/ ((a + b) % 65536) + c > 65535

\* x as i8, and u16::wrapping_add_signed
as_i8(x) == IF x >= 128 THEN x - 256 ELSE x
wrapping_add_signed(a, x) == (a + x) % 65536

\* The 8-bit operand selected by the low three bits of an opcode:
\* B, C, D, E, H, L, (HL), A.
reg8(c, m, i) ==
    CASE i = 0 -> c.b [] i = 1 -> c.c [] i = 2 -> c.d [] i = 3 -> c.e
      [] i = 4 -> c.h [] i = 5 -> c.l [] i = 6 -> read_byte(m, hl(c))
      [] i = 7 -> c.a

set_reg8(c, i, v) ==
    CASE i = 0 -> [c EXCEPT !.b = v] [] i = 1 -> [c EXCEPT !.c = v]
      [] i = 2 -> [c EXCEPT !.d = v] [] i = 3 -> [c EXCEPT !.e = v]
      [] i = 4 -> [c EXCEPT !.h = v] [] i = 5 -> [c EXCEPT !.l = v]
      [] i = 7 -> [c EXCEPT !.a = v]

\* The register pair selected by bits 4-5 of an opcode: BC, DE, HL, SP.
reg16(c, p) ==
    CASE p = 0 -> bc(c) [] p = 1 -> de(c) [] p = 2 -> hl(c) [] p = 3 -> c.sp

set_reg16(c, p, val) ==
    CASE p = 0 -> set_bc(c, val) [] p = 1 -> set_de(c, val)
      [] p = 2 -> set_hl(c, val) [] p = 3 -> [c EXCEPT !.sp = val]

\* What an arm of the opcode match leaves: the CPU, the MMU and the cycles.
Arm(c, m, cycles) == [cpu |-> c, mmu |-> m, cycles |-> cycles]

\* u16::from_le_bytes([self.get_byte(mmu), self.get_byte(mmu)])
word_after(g1, g2) == [cpu |-> g2.cpu, word |-> g1.byte + 256 * g2.byte]
second_byte(g1, m) == word_after(g1, get_byte(g1.cpu, m))
get_word(c, m) == second_byte(get_byte(c, m), m)

----------------------------------------------------------------------------
(* CPU: the arms of the opcode match, 0x00-0x3F                            *)

\* 0x01, 0x11, 0x21, 0x31: LD rr,d16 with the operand fetched as w
ld_rr_d16(w, m, p) == Arm(set_reg16(w.cpu, p, w.word), m, 12)

\* 0x02, 0x12: LD (BC),A and LD (DE),A
ld_at_rr_a(c, m, p) == Arm(c, write_byte(m, reg16(c, p), c.a), 8)

\* 0x22, 0x32: LD (HL+),A and LD (HL-),A
ld_hli_a(c, m, step) ==
    Arm(set_hl(c, (hl(c) + step) % 65536), write_byte(m, hl(c), c.a), 8)

\* 0x0A, 0x1A: LD A,(BC) and LD A,(DE)
ld_a_at_rr(c, m, p) == Arm([c EXCEPT !.a = read_byte(m, reg16(c, p))], m, 8)

\* 0x2A, 0x3A: LD A,(HL+) and LD A,(HL-)
ld_a_hli(c, m, step) ==
    Arm(set_hl([c EXCEPT !.a = read_byte(m, hl(c))], (hl(c) + step) % 65536), m, 8)

\* 0x03 .. 0x33 and 0x0B .. 0x3B: INC rr and DEC rr
inc_rr(c, m, p, step) == Arm(set_reg16(c, p, (reg16(c, p) + step) % 65536), m, 8)

\* The flags of INC: z, n = 0, h from the result x.
inc_flags(c, x) == set_znh(c, x = 0, FALSE, x % 16 = 0)

\* The flags of DEC: h from the old value, z from the result, n = 1.
dec_flags(c, old) ==
    set_n_flag(set_z_flag(set_h_flag(c, u8_check_half_carry_sub(old, 1, 0)),
                          (old - 1) % 256 = 0), TRUE)

\* 0x04 .. 0x3C: INC r; 0x34: INC (HL)
inc_r(c, m, i) ==
    IF i = 6
      THEN Arm(inc_flags(c, (read_byte(m, hl(c)) + 1) % 256),
               write_byte(m, hl(c), (read_byte(m, hl(c)) + 1) % 256), 12)
      ELSE Arm(inc_flags(set_reg8(c, i, (reg8(c, m, i) + 1) % 256),
                         (reg8(c, m, i) + 1) % 256), m, 4)

\* 0x05 .. 0x3D: DEC r; 0x35: DEC (HL)
dec_r(c, m, i) ==
    IF i = 6
      THEN Arm(dec_flags(c, read_byte(m, hl(c))),
               write_byte(m, hl(c), (read_byte(m, hl(c)) - 1) % 256), 12)
      ELSE Arm(set_reg8(dec_flags(c, reg8(c, m, i)), i, (reg8(c, m, i) - 1) % 256),
               m, 4)

\* 0x06 .. 0x3E: LD r,d8 with the operand fetched as g; 0x36: LD (HL),d8
ld_r_d8(g, m, i) ==
    IF i = 6
      THEN Arm(g.cpu, write_byte(m, hl(g.cpu), g.byte), 12)
      ELSE Arm(set_reg8(g.cpu, i, g.byte), m, 8)

\* 0x07 RLCA, 0x0F RRCA, 0x17 RLA, 0x1F RRA
rlca(c, m) ==
    Arm(set_znhc([c EXCEPT !.a = ((2 * c.a) % 256) + (IF c.a >= 128 THEN 1 ELSE 0)],
                 FALSE, FALSE, FALSE, c.a >= 128), m, 4)
rrca(c, m) ==
    Arm(set_znhc([c EXCEPT !.a = (c.a \div 2) + (IF c.a % 2 = 1 THEN 128 ELSE 0)],
                 FALSE, FALSE, FALSE, c.a % 2 = 1), m, 4)
rla(c, m) ==
    Arm(set_znhc([c EXCEPT !.a = ((2 * c.a) % 256) + (IF get_c_flag(c) THEN 1 ELSE 0)],
                 FALSE, FALSE, FALSE, c.a >= 128), m, 4)
rra(c, m) ==
    Arm(set_znhc([c EXCEPT !.a = (c.a \div 2) + (IF get_c_flag(c) THEN 128 ELSE 0)],
                 FALSE, FALSE, FALSE, c.a % 2 = 1), m, 4)

\* 0x08: LD (a16),SP with the operand fetched as w; the second address is
\* the unchecked sum address + 1, taken modulo 2^16 here.
ld_a16_sp(w, m) ==
    Arm(w.cpu,
        write_byte(write_byte(m, w.word, w.cpu.sp % 256),
                   (w.word + 1) % 65536, Shr(w.cpu.sp, 8)),
        20)

\* 0x09 .. 0x39: ADD HL,rr
add_hl_rr(c, m, p) ==
    Arm(set_n_flag(
          set_hl(set_c_flag(set_h_flag(c, u16_check_half_carry_add(hl(c), reg16(c, p), 0)),
                            u16_check_carry_add(hl(c), reg16(c, p), 0)),
                 (hl(c) + reg16(c, p)) % 65536),
          FALSE), m, 8)

\* 0x10: STOP fetches its second byte.
stop(g, m) == Arm(g.cpu, m, 8)

\* 0x18: JR r8 with the operand fetched as g
jr(g, m) ==
    Arm([g.cpu EXCEPT !.pc = wrapping_add_signed(@, as_i8(g.byte))], m, 12)

\* 0x20, 0x28, 0x30, 0x38: JR cc,r8
jr_cc(g, m, taken) == IF taken THEN jr(g, m) ELSE Arm(g.cpu, m, 8)

\* The condition selected by bits 3-4 of an opcode: NZ, Z, NC, C.
condition(c, k) ==
    CASE k = 0 -> ~get_z_flag(c) [] k = 1 -> get_z_flag(c)
      [] k = 2 -> ~get_c_flag(c) [] k = 3 -> get_c_flag(c)

\* DAA correcting the high digit only.
daa_adjustment_high_only(c) ==
    IF get_n_flag(c)
      THEN (IF get_c_flag(c) THEN \h60 ELSE 0)
      ELSE (IF get_c_flag(c) \/ c.a > \h99 THEN \h60 ELSE 0)

\* 0x27: DAA
daa_adjustment(c) ==
    IF get_n_flag(c)
      THEN (IF get_h_flag(c) THEN \h06 ELSE 0) + (IF get_c_flag(c) THEN \h60 ELSE 0)
      ELSE (IF get_h_flag(c) \/ c.a % 16 > \h09 THEN \h06 ELSE 0)
           + (IF get_c_flag(c) \/ c.a > \h99 THEN \h60 ELSE 0)
daa_a(c) ==
    IF get_n_flag(c) THEN (c.a - daa_adjustment(c)) % 256
                     ELSE (c.a + daa_adjustment(c)) % 256
daa(c, m) ==
    Arm(set_h_flag(
          set_z_flag(
            [(IF ~get_n_flag(c) /\ (get_c_flag(c) \/ c.a > \h99)
                THEN set_c_flag(c, TRUE) ELSE c) EXCEPT !.a = daa_a(c)],
            daa_a(c) = 0),
          FALSE), m, 4)

\* 0x2F CPL, 0x37 SCF, 0x3F CCF
cpl(c, m) == Arm(set_h_flag(set_n_flag([c EXCEPT !.a = 255 - @], TRUE), TRUE), m, 4)
scf(c, m) == Arm(set_c_flag(set_h_flag(set_n_flag(c, FALSE), FALSE), TRUE), m, 4)
ccf(c, m) ==
    Arm(set_c_flag(set_h_flag(set_n_flag(c, FALSE), FALSE), ~get_c_flag(c)), m, 4)

\* The arms 0x00-0x3F; g is the fetch of one operand byte and w of two.
arm_00_3F(c, m, opcode) ==
    LET col == opcode % 8
        row == opcode \div 8
        p == opcode \div 16
    IN  CASE opcode = \h00 -> Arm(c, m, 4)
          [] opcode = \h08 -> ld_a16_sp(get_word(c, m), m)
          [] opcode = \h10 -> stop(get_byte(c, m), m)
          [] opcode = \h18 -> jr(get_byte(c, m), m)
          [] opcode \in {\h20, \h28, \h30, \h38} ->
                jr_cc(get_byte(c, m), m, condition(c, row - 4))
          [] col = 1 /\ row % 2 = 0 -> ld_rr_d16(get_word(c, m), m, p)
          [] col = 1 /\ row % 2 = 1 -> add_hl_rr(c, m, p)
          [] opcode \in {\h02, \h12} -> ld_at_rr_a(c, m, p)
          [] opcode = \h22 -> ld_hli_a(c, m, 1)
          [] opcode = \h32 -> ld_hli_a(c, m, -1)
          [] opcode \in {\h0A, \h1A} -> ld_a_at_rr(c, m, p)
          [] opcode = \h2A -> ld_a_hli(c, m, 1)
          [] opcode = \h3A -> ld_a_hli(c, m, -1)
          [] col = 3 /\ row % 2 = 0 -> inc_rr(c, m, p, 1)
          [] col = 3 /\ row % 2 = 1 -> inc_rr(c, m, p, -1)
          [] col = 4 -> inc_r(c, m, row)
          [] col = 5 -> dec_r(c, m, row)
          [] col = 6 -> ld_r_d8(get_byte(c, m), m, row)
          [] opcode = \h07 -> rlca(c, m)
          [] opcode = \h0F -> rrca(c, m)
          [] opcode = \h17 -> rla(c, m)
          [] opcode = \h1F -> rra(c, m)
          [] opcode = \h27 -> daa(c, m)
          [] opcode = \h2F -> cpl(c, m)
          [] opcode = \h37 -> scf(c, m)
          [] opcode = \h3F -> ccf(c, m)

----------------------------------------------------------------------------
(* CPU: the arms of the opcode match, 0x40-0xBF and the d8 arithmetic      *)

\* 0x40-0x7F except 0x76: LD r,r'; 8 cycles when either side is (HL)
ld_r_r(c, m, dst, src) ==
    IF dst = 6 THEN Arm(c, write_byte(m, hl(c), reg8(c, m, src)), 8)
    ELSE Arm(set_reg8(c, dst, reg8(c, m, src)), m, IF src = 6 THEN 8 ELSE 4)

\* ADD and ADC: the flags come from the old A, the operand and the carry in
add_a(c, x, carry) ==
    set_n_flag(
      set_z_flag(
        [set_c_flag(set_h_flag(c, u8_check_half_carry_add(c.a, x, carry)),
                    u8_check_carry_add(c.a, x, carry))
           EXCEPT !.a = (c.a + x + carry) % 256],
        (c.a + x + carry) % 256 = 0),
      FALSE)

\* SUB and SBC
sub_a(c, x, carry) ==
    set_n_flag(
      set_z_flag(
        [set_c_flag(set_h_flag(c, u8_check_half_carry_sub(c.a, x, carry)),
                    u8_check_carry_sub(c.a, x, carry))
           EXCEPT !.a = (c.a - x - carry) % 256],
        (c.a - x - carry) % 256 = 0),
      TRUE)

\* CP: the flags of SUB, A unchanged
cp_a(c, x) ==
    set_n_flag(
      set_z_flag(
        set_c_flag(set_h_flag(c, u8_check_half_carry_sub(c.a, x, 0)),
                   u8_check_carry_sub(c.a, x, 0)),
        (c.a - x) % 256 = 0),
      TRUE)

BitXor(a, b) == BitOr(a, b) - BitAnd(a, b)

and_a(c, x) ==
    set_znhc([c EXCEPT !.a = BitAnd(@, x)], BitAnd(c.a, x) = 0, FALSE, TRUE, FALSE)
xor_a(c, x) ==
    set_znhc([c EXCEPT !.a = BitXor(@, x)], BitXor(c.a, x) = 0, FALSE, FALSE, FALSE)
or_a(c, x) ==
    set_znhc([c EXCEPT !.a = BitOr(@, x)], BitOr(c.a, x) = 0, FALSE, FALSE, FALSE)

carry_in(c) == IF get_c_flag(c) THEN 1 ELSE 0

\* The operation selected by bits 3-5 of an opcode of 0x80-0xBF (and of
\* 0xC6 .. 0xFE): ADD, ADC, SUB, SBC, AND, XOR, OR, CP on operand x.
alu_a(c, k, x) ==
    CASE k = 0 -> add_a(c, x, 0)
      [] k = 1 -> add_a(c, x, carry_in(c))
      [] k = 2 -> sub_a(c, x, 0)
      [] k = 3 -> sub_a(c, x, carry_in(c))
      [] k = 4 -> and_a(c, x)
      [] k = 5 -> xor_a(c, x)
      [] k = 6 -> or_a(c, x)
      [] k = 7 -> cp_a(c, x)

\* 0x80-0xBF
alu_r(c, m, k, src) == Arm(alu_a(c, k, reg8(c, m, src)), m, IF src = 6 THEN 8 ELSE 4)

\* 0xC6, 0xCE, 0xD6, 0xDE, 0xE6, 0xEE, 0xF6, 0xFE with the operand fetched as g
alu_d8(g, m, k) == Arm(alu_a(g.cpu, k, g.byte), m, 8)

arm_40_BF(c, m, opcode) ==
    IF opcode < \h80
      THEN ld_r_r(c, m, (opcode \div 8) % 8, opcode % 8)
      ELSE alu_r(c, m, (opcode \div 8) % 8, opcode % 8)

----------------------------------------------------------------------------
(* CPU: the arms of the opcode match, 0xC0-0xFF                            *)

\* 0xC9 RET, and the taken case of RET cc, with the stack popped as p
ret_to(p, m, cycles) == Arm([p.cpu EXCEPT !.pc = p.val], m, cycles)

\* 0xC0, 0xC8, 0xD0, 0xD8: RET cc
ret_cc(c, m, taken) == IF taken THEN ret_to(pop_stack(c, m), m, 20) ELSE Arm(c, m, 8)

\* 0xC1, 0xD1, 0xE1, 0xF1: POP BC, DE, HL, AF
set_popped(p, q) ==
    CASE q = 0 -> set_bc(p.cpu, p.val) [] q = 1 -> set_de(p.cpu, p.val)
      [] q = 2 -> set_hl(p.cpu, p.val) [] q = 3 -> set_af(p.cpu, p.val)
pop_rr(c, m, q) == Arm(set_popped(pop_stack(c, m), q), m, 12)

\* 0xC5, 0xD5, 0xE5, 0xF5: PUSH BC, DE, HL, AF
pushed_pair(c, q) ==
    CASE q = 0 -> bc(c) [] q = 1 -> de(c) [] q = 2 -> hl(c) [] q = 3 -> af(c)
after_push(p, cycles) == Arm(p.cpu, p.mmu, cycles)
push_rr(c, m, q) == after_push(push_stack(c, m, pushed_pair(c, q)), 16)

\* 0xC3 JP a16 and 0xC2, 0xCA, 0xD2, 0xDA: JP cc,a16, the operand fetched as w
jp_cc(w, m, taken) ==
    IF taken THEN Arm([w.cpu EXCEPT !.pc = w.word], m, 16) ELSE Arm(w.cpu, m, 12)

\* push_stack(mmu, self.pc); self.pc = target
call_to(p, target, cycles) == Arm([p.cpu EXCEPT !.pc = target], p.mmu, cycles)

\* 0xCD CALL a16 and 0xC4, 0xCC, 0xD4, 0xDC: CALL cc,a16
call_cc(w, m, taken) ==
    IF taken THEN call_to(push_stack(w.cpu, m, w.cpu.pc), w.word, 24)
             ELSE Arm(w.cpu, m, 12)

\* 0xC7 .. 0xFF: RST
rst(c, m, target) == call_to(push_stack(c, m, c.pc), target, 16)

\* 0xF0: LDH A,(a8) and 0xF2: LD A,(C)
ldh_a_a8(g, m) ==
    Arm([g.cpu EXCEPT !.a = read_byte(m, BitOr(\hFF00, g.byte))], m, 12)
ld_a_at_c(c, m) == Arm([c EXCEPT !.a = read_byte(m, BitOr(\hFF00, c.c))], m, 8)
\* 0xE2: LD (C),A
ld_at_c_a(c, m) == Arm(c, write_byte(m, BitOr(\hFF00, c.c), c.a), 8)

\* 0xEA: LD (a16),A and 0xFA: LD A,(a16)
ld_a16_a(w, m) == Arm(w.cpu, write_byte(m, w.word, w.cpu.a), 16)
ld_a_a16(w, m) == Arm([w.cpu EXCEPT !.a = read_byte(m, w.word)], m, 16)

\* The flags of ADD SP,r8 and LD HL,SP+r8: from the low byte of SP and the
\* unsigned operand.
sp_r8_flags(c, x) ==
    set_znhc(c, FALSE, FALSE, u8_check_half_carry_add(c.sp % 256, x, 0),
             u8_check_carry_add(c.sp % 256, x, 0))

\* 0xE8: ADD SP,r8 and 0xF8: LD HL,SP+r8
add_sp_r8(g, m) ==
    Arm([sp_r8_flags(g.cpu, g.byte)
           EXCEPT !.sp = wrapping_add_signed(@, as_i8(g.byte))], m, 16)
ld_hl_sp_r8(g, m) ==
    Arm(set_hl(sp_r8_flags(g.cpu, g.byte),
               wrapping_add_signed(g.cpu.sp, as_i8(g.byte))), m, 12)

----------------------------------------------------------------------------
(* CPU: execute_prefixed                                                   *)

\* The value and carry the arms 0x00-0x3F compute from operand x:
\* RLC, RRC, RL, RR, SLA, SRA, SWAP, SRL by bits 3-5 of the opcode.
cb_value(k, x, cy) ==
    CASE k = 0 -> ((2 * x) % 256) + (IF x >= 128 THEN 1 ELSE 0)
      [] k = 1 -> (x \div 2) + (IF x % 2 = 1 THEN 128 ELSE 0)
      [] k = 2 -> ((2 * x) % 256) + cy
      [] k = 3 -> (x \div 2) + 128 * cy
      [] k = 4 -> (2 * x) % 256
      [] k = 5 -> (x \div 2) + (IF x >= 128 THEN 128 ELSE 0)
      [] k = 6 -> (x % 16) * 16 + (x \div 16)
      [] k = 7 -> x \div 2

cb_carry(k, x) ==
    CASE k \in {0, 2, 4} -> x >= 128
      [] k \in {1, 3, 5, 7} -> x % 2 = 1
      [] k = 6 -> FALSE

\* The store back of execute_prefixed
cb_store(c, m, i, x) ==
    IF i = 6 THEN [cpu |-> c, mmu |-> write_byte(m, hl(c), x)]
             ELSE [cpu |-> set_reg8(c, i, x), mmu |-> m]

cb_flags(s, z, cy, cycles) == Arm(set_znhc(s.cpu, z, FALSE, FALSE, cy), s.mmu, cycles)

\* 0xCB 0x00-0x3F on operand x
cb_shift(c, m, k, i, x) ==
    cb_flags(cb_store(c, m, i, cb_value(k, x, carry_in(c))),
             cb_value(k, x, carry_in(c)) = 0, cb_carry(k, x),
             IF i = 6 THEN 16 ELSE 8)

\* 0xCB 0x40-0x7F: BIT b,r
cb_bit(c, m, bit, i) ==
    Arm(set_znh(c, ~is_bit_set(reg8(c, m, i), bit), FALSE, TRUE), m,
        IF i = 6 THEN 12 ELSE 8)

\* 0xCB 0x80-0xBF: RES b,r and 0xCB 0xC0-0xFF: SET b,r
cb_res_set(c, m, i, x) == after_push(cb_store(c, m, i, x), IF i = 6 THEN 16 ELSE 8)

prefixed_arm(c, m, opcode) ==
    LET i == opcode % 8
        k == (opcode \div 8) % 8
    IN  IF opcode < \h40 THEN cb_shift(c, m, k, i, reg8(c, m, i))
        ELSE IF opcode < \h80 THEN cb_bit(c, m, k, i)
        ELSE IF opcode < \hC0
          THEN cb_res_set(c, m, i, BitAnd(reg8(c, m, i), 255 - 2 ^ k))
        ELSE cb_res_set(c, m, i, BitOr(reg8(c, m, i), 2 ^ k))

execute_prefixed_at(g, m) == prefixed_arm(g.cpu, m, g.byte)
execute_prefixed(c, m) == execute_prefixed_at(get_byte(c, m), m)

----------------------------------------------------------------------------
(* CPU: the opcode match                                                   *)

\* The opcodes that reach the default arm of the match.
UndefinedOpcodes ==
    {\hD3, \hDB, \hDD, \hE3, \hE4, \hEB, \hEC, \hED, \hF4, \hFC, \hFD}

arm_C0_FF(c, m, opcode) ==
    LET col == opcode % 8
        row == (opcode \div 8) % 8
        q == (opcode \div 16) % 4
    IN  CASE opcode \in {\hC0, \hC8, \hD0, \hD8} -> ret_cc(c, m, condition(c, row))
          [] opcode \in {\hC1, \hD1, \hE1, \hF1} -> pop_rr(c, m, q)
          [] opcode \in {\hC2, \hCA, \hD2, \hDA} ->
                jp_cc(get_word(c, m), m, condition(c, row))
          [] opcode = \hC3 -> jp_cc(get_word(c, m), m, TRUE)
          [] opcode \in {\hC4, \hCC, \hD4, \hDC} ->
                call_cc(get_word(c, m), m, condition(c, row))
          [] opcode \in {\hC5, \hD5, \hE5, \hF5} -> push_rr(c, m, q)
          [] col = 6 -> alu_d8(get_byte(c, m), m, row)
          [] col = 7 -> rst(c, m, 8 * row)
          [] opcode = \hC9 -> ret_to(pop_stack(c, m), m, 16)
          [] opcode = \hCB -> execute_prefixed(c, m)
          [] opcode = \hCD -> call_cc(get_word(c, m), m, TRUE)
          [] opcode = \hE2 -> ld_at_c_a(c, m)
          [] opcode = \hE8 -> add_sp_r8(get_byte(c, m), m)
          [] opcode = \hE9 -> Arm([c EXCEPT !.pc = hl(c)], m, 4)
          [] opcode = \hEA -> ld_a16_a(get_word(c, m), m)
          [] opcode = \hF0 -> ldh_a_a8(get_byte(c, m), m)
          [] opcode = \hF2 -> ld_a_at_c(c, m)
          [] opcode = \hF8 -> ld_hl_sp_r8(get_byte(c, m), m)
          [] opcode = \hF9 -> Arm([c EXCEPT !.sp = hl(c)], m, 8)
          [] opcode = \hFA -> ld_a_a16(get_word(c, m), m)

\* The arms of the match other than the eight of execute_opcode.
opcode_arm(c, m, opcode) ==
    IF opcode < \h40 THEN arm_00_3F(c, m, opcode)
    ELSE IF opcode < \hC0 THEN arm_40_BF(c, m, opcode)
    ELSE arm_C0_FF(c, m, opcode)

\* DI clearing IME only.
di_keeps_schedule(c, m) == [cpu |-> [c EXCEPT !.ime = FALSE], mmu |-> m, cycles |-> 4]

\* 0xF3 DI
di(c, m) ==
    [cpu |-> [c EXCEPT !.ime = FALSE, !.ime_scheduled = FALSE],
     mmu |-> m, cycles |-> 4]

\* The arms of the opcode match: eight written out, the rest by opcode_arm.
execute_opcode(c, m, opcode) ==
    CASE opcode = OP_NOP -> [cpu |-> c, mmu |-> m, cycles |-> 4]
      [] opcode = OP_LD_SP_D16 ->
            LET g1 == get_byte(c, m)
                g2 == get_byte(g1.cpu, m)
            IN  [cpu |-> [g2.cpu EXCEPT !.sp = g1.byte + 256 * g2.byte],
                 mmu |-> m, cycles |-> 12]
      [] opcode = OP_LD_A_D8 ->
            LET g == get_byte(c, m)
            IN  [cpu |-> [g.cpu EXCEPT !.a = g.byte], mmu |-> m, cycles |-> 8]
      [] opcode = OP_HALT ->
            [cpu |-> [c EXCEPT !.low_power_mode = TRUE], mmu |-> m, cycles |-> 4]
      [] opcode = OP_RETI ->
            LET p == pop_stack(c, m)
            IN  [cpu |-> [p.cpu EXCEPT !.pc = p.val, !.ime = TRUE],
                 mmu |-> m, cycles |-> 16]
      [] opcode = OP_LDH_A8_A ->
            LET g == get_byte(c, m)
            IN  [cpu |-> g.cpu,
                 mmu |-> write_byte(m, BitOr(\hFF00, g.byte), g.cpu.a),
                 cycles |-> 12]
      [] opcode = OP_DI -> di(c, m)
      [] opcode = OP_EI ->
            [cpu |-> [c EXCEPT !.ime_scheduled = TRUE], mmu |-> m, cycles |-> 4]
      [] OTHER -> opcode_arm(c, m, opcode)

ime_promotion_at_once(c, opcode) ==
    IF c.ime_scheduled
      THEN [c EXCEPT !.ime = TRUE, !.ime_scheduled = FALSE]
      ELSE c

\* The promotion of ime_scheduled at the end of execute_next.
ime_promotion(c, opcode) ==
    IF c.ime_scheduled /\ opcode # OP_EI
      THEN [c EXCEPT !.ime = TRUE, !.ime_scheduled = FALSE]
      ELSE c

\* The serial debug hook at the end of execute_next.
serial_hook(m) ==
    IF read_byte(m, \hFF02) = \h81
      THEN [mmu |-> write_byte(m, \hFF02, \h00), out |-> <<read_byte(m, \hFF01)>>]
      ELSE [mmu |-> m, out |-> << >>]

\* {:02X?} of a byte, and the message of the panic in the default arm.
HexDigit(d) ==
    CASE d = 0 -> "0" [] d = 1 -> "1" [] d = 2 -> "2" [] d = 3 -> "3"
      [] d = 4 -> "4" [] d = 5 -> "5" [] d = 6 -> "6" [] d = 7 -> "7"
      [] d = 8 -> "8" [] d = 9 -> "9" [] d = 10 -> "A" [] d = 11 -> "B"
      [] d = 12 -> "C" [] d = 13 -> "D" [] d = 14 -> "E" [] d = 15 -> "F"
Hex2(x) == HexDigit(x \div 16) \o HexDigit(x % 16)
panic_message(opcode) == <<"opcode: ", Hex2(opcode), ", not implemented">>

\* The end of execute_next after the arm for opcode has returned e.
finish_step(e, opcode) ==
    [cpu |-> ime_promotion(e.cpu, opcode), mmu |-> serial_hook(e.mmu).mmu,
     cycles |-> e.cycles, opcode |-> opcode, out |-> serial_hook(e.mmu).out,
     panic |-> << >>]

\* The opcode match on the fetched byte g.byte; the default arm panics, and
\* nothing after the match runs.
match_opcode(g, m) ==
    IF g.byte \in UndefinedOpcodes
      THEN [cpu |-> g.cpu, mmu |-> m, cycles |-> 0, opcode |-> g.byte,
            out |-> << >>, panic |-> panic_message(g.byte)]
      ELSE finish_step(execute_opcode(g.cpu, m, g.byte), g.byte)

\* execute_next returning no cycles for a step in low-power mode.
step_after_interrupts_idle_free(r) ==
    IF r.cycles > 0
      THEN [cpu |-> r.cpu, mmu |-> r.mmu, cycles |-> r.cycles,
            opcode |-> NoOpcode, out |-> << >>, panic |-> << >>]
    ELSE IF r.cpu.low_power_mode
      THEN [cpu |-> r.cpu, mmu |-> r.mmu, cycles |-> 0,
            opcode |-> NoOpcode, out |-> << >>, panic |-> << >>]
    ELSE match_opcode(get_byte(r.cpu, r.mmu), r.mmu)

\* execute_next after its interrupt phase has returned r; opcode is NoOpcode
\* when the step returns before the fetch.
step_after_interrupts(r) ==
    IF r.cycles > 0
      THEN [cpu |-> r.cpu, mmu |-> r.mmu, cycles |-> r.cycles,
            opcode |-> NoOpcode, out |-> << >>, panic |-> << >>]
    ELSE IF r.cpu.low_power_mode
      THEN [cpu |-> r.cpu, mmu |-> r.mmu, cycles |-> 4,
            opcode |-> NoOpcode, out |-> << >>, panic |-> << >>]
    ELSE match_opcode(get_byte(r.cpu, r.mmu), r.mmu)

execute_next(c, m) == step_after_interrupts(execute_interrupts(c, m))

\* Whether the step execute_next(c, m) stays inside the modelled opcodes.
StepModelled(c, m) ==
    LET r == execute_interrupts(c, m)
    IN  \/ r.cycles > 0
        \/ r.cpu.low_power_mode
        \/ read_byte(r.mmu, r.cpu.pc) \in ModelledOpcodes

----------------------------------------------------------------------------
(* PPU                                                                     *)

HBLANK  == 0
VBLANK  == 1
OAMSCAN == 2
RENDER  == 3

WIDTH  == 160
HEIGHT == 144

LCDC == \hFF40
STAT == \hFF41
SCY  == \hFF42
SCX  == \hFF43
LY   == \hFF44
LYC  == \hFF45
BGP  == \hFF47
OBP0 == \hFF48
OBP1 == \hFF49
WY   == \hFF4A
WX   == \hFF4B

MAX_CYCLES_PER_SCANLINE == 456
SCANLINES == \h9A
VISIBLE_LINES == \h90

White     == \h00FAFBF6
LightGray == \h00C6B7BE
DarkGray  == \h00565A75
Black     == \h000F0F1B

\* res[7 - bit] = 2 * bit(b) + bit(a), as a sequence indexed from 1
get_tile_row(a, b) ==
    [i \in 1..8 |->
        (IF is_bit_set(b, 8 - i) THEN 2 ELSE 0) + (IF is_bit_set(a, 8 - i) THEN 1 ELSE 0)]

palette_to_color(palette, color_id) ==
    CASE Shr(palette, 2 * color_id) % 4 = 0 -> White
      [] Shr(palette, 2 * color_id) % 4 = 1 -> LightGray
      [] Shr(palette, 2 * color_id) % 4 = 2 -> DarkGray
      [] Shr(palette, 2 * color_id) % 4 = 3 -> Black

\* PPU::new starting at the top of the vertical blank, line 144.
PPU_new_at_line_144(m) ==
    [ frame_buffer        |-> [index |-> -1, color |-> 0],
      frame_ready         |-> FALSE,
      background_fifo     |-> << >>,
      sprite_fifo         |-> << >>,
      sprite_buffer       |-> << >>,
      interrupt_triggered |-> FALSE,
      cycles_waste        |-> 0,
      cycles_spent        |-> 0,
      mode                |-> read_byte(m, STAT) % 4,
      wy                  |-> read_byte(m, WY),
      wx                  |-> read_byte(m, WX),
      ly                  |-> VISIBLE_LINES,
      lx                  |-> 0,
      w_present           |-> FALSE,
      w_ly                |-> 0,
      w_lx                |-> 0,
      unreachable         |-> FALSE ]

\* frame_buffer keeps the last store into the 160 x 144 array (index and
\* colour); unreachable records that update_mode reached its unreachable!()
\* arm, after which the core has aborted.
PPU_new(m) ==
    [ frame_buffer        |-> [index |-> -1, color |-> 0],
      frame_ready         |-> FALSE,
      background_fifo     |-> << >>,
      sprite_fifo         |-> << >>,
      sprite_buffer       |-> << >>,
      interrupt_triggered |-> FALSE,
      cycles_waste        |-> 0,
      cycles_spent        |-> 0,
      mode                |-> read_byte(m, STAT) % 4,
      wy                  |-> read_byte(m, WY),
      wx                  |-> read_byte(m, WX),
      ly                  |-> read_byte(m, LY),
      lx                  |-> 0,
      w_present           |-> FALSE,
      w_ly                |-> 0,
      w_lx                |-> 0,
      unreachable         |-> FALSE ]

Unreachable == -1

next_mode_render_at_79(mode, ly, cycles_spent, lx) ==
    IF mode = VBLANK /\ ly = 0 /\ cycles_spent = 0 THEN OAMSCAN
    ELSE IF mode = OAMSCAN /\ ly < VISIBLE_LINES /\ cycles_spent < 79 THEN OAMSCAN
    ELSE IF mode = OAMSCAN /\ cycles_spent \in {79, 80} /\ ly < VISIBLE_LINES THEN RENDER
    ELSE IF mode = RENDER /\ ly < VISIBLE_LINES
      THEN (IF lx < \hA0 THEN RENDER ELSE HBLANK)
    ELSE IF mode = HBLANK /\ cycles_spent = 0 /\ ly < VISIBLE_LINES THEN OAMSCAN
    ELSE IF mode = HBLANK /\ cycles_spent = 0 THEN VBLANK
    ELSE IF mode = HBLANK /\ ly < VISIBLE_LINES THEN HBLANK
    ELSE IF mode = VBLANK /\ ly >= VISIBLE_LINES /\ ly < SCANLINES THEN VBLANK
    ELSE Unreachable

\* The match of update_mode on (mode, ly, cycles_spent); arms in source order.
next_mode(mode, ly, cycles_spent, lx) ==
    IF mode = VBLANK /\ ly = 0 /\ cycles_spent = 0 THEN OAMSCAN
    ELSE IF mode = OAMSCAN /\ ly < VISIBLE_LINES /\ cycles_spent < \h50 THEN OAMSCAN
    ELSE IF mode = OAMSCAN /\ cycles_spent = 80 /\ ly < VISIBLE_LINES THEN RENDER
    ELSE IF mode = RENDER /\ ly < VISIBLE_LINES
      THEN (IF lx < \hA0 THEN RENDER ELSE HBLANK)
    ELSE IF mode = HBLANK /\ cycles_spent = 0 /\ ly < VISIBLE_LINES THEN OAMSCAN
    ELSE IF mode = HBLANK /\ cycles_spent = 0 THEN VBLANK
    ELSE IF mode = HBLANK /\ ly < VISIBLE_LINES THEN HBLANK
    ELSE IF mode = VBLANK /\ ly >= VISIBLE_LINES /\ ly < SCANLINES THEN VBLANK
    ELSE Unreachable

\* What update_mode stores in STAT on a mode change.
stat_with_mode(stat, mode) == BitOr(BitAnd(stat, \hFC), mode)

\* update_mode requesting the VBLANK interrupt on every mode change.
mode_changed_requests_always(p, m) ==
    LET stat == read_byte(m, STAT)
        m1 == write_byte(m, STAT, stat_with_mode(stat, p.mode))
        p1 == CASE p.mode = OAMSCAN -> [p EXCEPT !.cycles_waste = @ + 79]
                [] p.mode = RENDER  -> [p EXCEPT !.cycles_waste = @ + 12]
                [] p.mode = VBLANK  -> [p EXCEPT !.w_ly = 0, !.frame_ready = TRUE]
                [] OTHER -> p
        m2 == request_interrupt(m1, 0)
    IN  IF p1.mode # RENDER /\ ~p1.interrupt_triggered
           /\ Shr(stat, 3 + p1.mode) % 2 = 1
          THEN [ppu |-> [p1 EXCEPT !.interrupt_triggered = TRUE],
                mmu |-> request_interrupt(m2, 1)]
          ELSE [ppu |-> p1, mmu |-> m2]

\* update_mode requesting the STAT interrupt whatever the scanline has had.
mode_changed_requests_again(p, m) ==
    LET stat == read_byte(m, STAT)
        m1 == write_byte(m, STAT, stat_with_mode(stat, p.mode))
        p1 == CASE p.mode = OAMSCAN -> [p EXCEPT !.cycles_waste = @ + 79]
                [] p.mode = RENDER  -> [p EXCEPT !.cycles_waste = @ + 12]
                [] p.mode = VBLANK  -> [p EXCEPT !.w_ly = 0, !.frame_ready = TRUE]
                [] OTHER -> p
        m2 == IF p.mode = VBLANK THEN request_interrupt(m1, 0) ELSE m1
    IN  IF p1.mode # RENDER /\ Shr(stat, 3 + p1.mode) % 2 = 1
          THEN [ppu |-> [p1 EXCEPT !.interrupt_triggered = TRUE],
                mmu |-> request_interrupt(m2, 1)]
          ELSE [ppu |-> p1, mmu |-> m2]

\* The part of update_mode that follows the early return: the mode changed.
mode_changed(p, m) ==
    LET stat == read_byte(m, STAT)
        m1 == write_byte(m, STAT, stat_with_mode(stat, p.mode))
        p1 == CASE p.mode = OAMSCAN -> [p EXCEPT !.cycles_waste = @ + 79]
                [] p.mode = RENDER  -> [p EXCEPT !.cycles_waste = @ + 12]
                [] p.mode = VBLANK  -> [p EXCEPT !.w_ly = 0, !.frame_ready = TRUE]
                [] OTHER -> p
        m2 == IF p.mode = VBLANK THEN request_interrupt(m1, 0) ELSE m1
    IN  IF p1.mode # RENDER /\ ~p1.interrupt_triggered
           /\ Shr(stat, 3 + p1.mode) % 2 = 1
          THEN [ppu |-> [p1 EXCEPT !.interrupt_triggered = TRUE],
                mmu |-> request_interrupt(m2, 1)]
          ELSE [ppu |-> p1, mmu |-> m2]

update_mode(p, m) ==
    LET prev_mode == p.mode
        mode == next_mode(p.mode, p.ly, p.cycles_spent, p.lx)
    IN  IF mode = Unreachable THEN [ppu |-> [p EXCEPT !.unreachable = TRUE], mmu |-> m]
        ELSE IF mode = prev_mode THEN [ppu |-> p, mmu |-> m]
        ELSE mode_changed([p EXCEPT !.mode = mode], m)

\* The sprite_buffer entries whose X covers lx, in buffer order.
covering(p, m) ==
    SelectSeq(p.sprite_buffer,
              LAMBDA address :
                  LET obj_x == read_byte(m, address + 1)
                  IN  obj_x <= p.lx + 8 /\ p.lx < obj_x)

NoObject == -1

find_object_address(p, m) ==
    IF covering(p, m) = << >> THEN NoObject ELSE Head(covering(p, m))

\* The entry pushed when no object covers lx.
transparent_entry ==
    [color |-> 0, palette_address |-> OBP0, bg_obj_priority_flag |-> TRUE]

\* fill_sprite_fifo for the object at obj_addr, whose four OAM bytes and
\* LCDC have been read.
push_object_row(p, m, lcdc, obj_y, obj_x, obj_tile_index, obj_attr) ==
    LET obj_enable_flag == is_bit_set(lcdc, 1)
        obj_size == is_bit_set(lcdc, 2)
        bg_obj_priority_flag == is_bit_set(obj_attr, 7)
        y_flip == is_bit_set(obj_attr, 6)
        x_flip == is_bit_set(obj_attr, 5)
        obj_palette_address == IF is_bit_set(obj_attr, 4) THEN OBP1 ELSE OBP0
        obj_tile_data_address ==
            \h8000 + 16 *
                (IF obj_size
                   THEN (IF y_flip # (p.ly + 8 < obj_y)
                           THEN BitAnd(obj_tile_index, \hFE)
                           ELSE BitOr(obj_tile_index, \h01))
                   ELSE obj_tile_index)
        \* (self.ly + 16 - obj_y) as u16 % 8, the u8 difference wrapping
        row == ((p.ly + 16 - obj_y) % 256) % 8
        obj_data_index == IF y_flip THEN 7 - row ELSE row
        obj_data_address == obj_tile_data_address + obj_data_index * 2
        row_pixels == get_tile_row(read_byte(m, obj_data_address),
                                   read_byte(m, obj_data_address + 1))
        pixels == IF x_flip THEN [i \in 1..8 |-> row_pixels[9 - i]]
                            ELSE row_pixels
        first == p.lx + 8 - obj_x
        pushed == [i \in 1..(8 - first) |->
                     [color |-> IF obj_enable_flag
                                  THEN pixels[first + i] ELSE 0,
                      palette_address |-> obj_palette_address,
                      bg_obj_priority_flag |-> bg_obj_priority_flag]]
    IN  [p EXCEPT !.cycles_waste = @ + 6,
                  !.sprite_fifo = @ \o pushed]

\* fill_sprite_fifo pushing a whole row of transparent entries on a miss.
push_object_transparent_row(p, m, obj_addr) ==
    IF obj_addr = NoObject
      THEN [p EXCEPT !.sprite_fifo = @ \o [i \in 1..8 |-> transparent_entry]]
      ELSE push_object_row(p, m, read_byte(m, LCDC),
                           read_byte(m, obj_addr), read_byte(m, obj_addr + 1),
                           read_byte(m, obj_addr + 2), read_byte(m, obj_addr + 3))

\* fill_sprite_fifo once find_object_address has returned obj_addr.
push_object(p, m, obj_addr) ==
    IF obj_addr = NoObject
      THEN [p EXCEPT !.sprite_fifo = Append(@, transparent_entry)]
      ELSE push_object_row(p, m, read_byte(m, LCDC),
                           read_byte(m, obj_addr), read_byte(m, obj_addr + 1),
                           read_byte(m, obj_addr + 2), read_byte(m, obj_addr + 3))

fill_sprite_fifo(p, m) == push_object(p, m, find_object_address(p, m))

\* LCDC.5 && ly >= wy && lx + 7 >= wx
window_applies(p, m) ==
    /\ is_bit_set(read_byte(m, LCDC), 5)
    /\ p.ly >= p.wy
    /\ p.lx + 7 >= p.wx

\* The number of pixels the lx == 0 alignment leaves in the background FIFO.
remaining_at_start(is_window, wx, scx) ==
    IF is_window THEN 1 + wx ELSE 8 - (scx % 8)

\* fill_background_fifo from the fetch of the tile row on: tile number
\* tile_no, row line % 8.
push_tile_row(p, m, scx, lcdc, is_window, line, tile_no) ==
    LET bg_enable == is_bit_set(lcdc, 0)
        tile_address ==
            (IF is_bit_set(lcdc, 4)
               THEN \h8000 + 16 * tile_no
               ELSE (\h9000 + 16 * (IF tile_no >= 128 THEN tile_no - 256 ELSE tile_no))
                        % 65536)
            + 2 * (line % 8)
        pixels == get_tile_row(read_byte(m, tile_address),
                               read_byte(m, tile_address + 1))
        filled_len == Len(p.background_fifo) + 8
        remaining == remaining_at_start(is_window, p.wx, scx)
        dropped == IF p.lx = 0 /\ filled_len > remaining
                     THEN filled_len - remaining ELSE 0
    IN  [p EXCEPT !.background_fifo =
                      SubSeq(@ \o [i \in 1..8 |-> IF bg_enable THEN pixels[i] ELSE 0],
                             dropped + 1, filled_len),
                  !.cycles_waste = @ + dropped]

\* fill_background_fifo once SCY, SCX, LCDC and is_window are known.
fetch_tile(p, m, scy, scx, lcdc, is_window) ==
    LET tile_map_address ==
            IF (IF is_window THEN is_bit_set(lcdc, 6) ELSE is_bit_set(lcdc, 3))
              THEN \h9C00 ELSE \h9800
        line == IF is_window THEN p.w_ly ELSE (scy + p.ly) % 256
        tile_y == line \div 8
        tile_x == (IF is_window THEN (p.lx + 7 - p.wx) % 256
                                ELSE (scx + p.lx) % 256) \div 8
    IN  push_tile_row(p, m, scx, lcdc, is_window, line,
                      read_byte(m, tile_map_address + 32 * tile_y + tile_x))

fill_background_fifo(p, m) ==
    fetch_tile(p, m, read_byte(m, SCY), read_byte(m, SCX), read_byte(m, LCDC),
               window_applies(p, m))

\* The mixer showing every opaque sprite pixel, whatever its priority flag.
mix_pixel_ignores_priority(m, bg_pixel, obj_data) ==
    IF obj_data.color = 0
      THEN palette_to_color(read_byte(m, BGP), bg_pixel)
      ELSE palette_to_color(read_byte(m, obj_data.palette_address), obj_data.color)

\* The pixel the mixer outputs for a background pixel and a sprite entry.
mix_pixel(m, bg_pixel, obj_data) ==
    IF obj_data.color = 0 \/ (obj_data.bg_obj_priority_flag /\ bg_pixel > 0)
      THEN palette_to_color(read_byte(m, BGP), bg_pixel)
      ELSE palette_to_color(read_byte(m, obj_data.palette_address), obj_data.color)

\* The first block of render: the window starts on this line.
start_window(p, m) ==
    IF ~p.w_present /\ window_applies(p, m)
      THEN [p EXCEPT !.background_fifo = << >>,
                     !.w_present = TRUE,
                     !.cycles_waste = @ + 6,
                     !.w_lx = p.lx]
      ELSE p

refill_background_always(p, m) == fill_background_fifo(p, m)

refill_background(p, m) ==
    IF p.background_fifo = << >> THEN fill_background_fifo(p, m) ELSE p

\* The early return of render charging ten times the pipeline refill.
stall_for_sprite_tenfold(p) ==
    IF p.lx # 0 /\ Len(p.background_fifo) < 6
      THEN [p EXCEPT !.cycles_waste = @ + 60 - Len(p.background_fifo)]
      ELSE p

\* The early return of render after a sprite fetch that costs cycles.
stall_for_sprite(p) ==
    IF p.lx # 0 /\ Len(p.background_fifo) < 6
      THEN [p EXCEPT !.cycles_waste = @ + 6 - Len(p.background_fifo)]
      ELSE p

\* The end of render indexing the frame buffer with the height as stride.
output_pixel_height_stride(p, m) ==
    [p EXCEPT !.background_fifo = Tail(@),
              !.sprite_fifo = Tail(@),
              !.frame_buffer =
                  [index |-> p.ly * HEIGHT + p.lx,
                   color |-> mix_pixel(m, Head(p.background_fifo),
                                       Head(p.sprite_fifo))],
              !.lx = @ + 1]

\* The end of render: one pixel leaves each FIFO and is stored.
output_pixel(p, m) ==
    [p EXCEPT !.background_fifo = Tail(@),
              !.sprite_fifo = Tail(@),
              !.frame_buffer =
                  [index |-> p.ly * WIDTH + p.lx,
                   color |-> mix_pixel(m, Head(p.background_fifo),
                                       Head(p.sprite_fifo))],
              !.lx = @ + 1]

\* render after fill_sprite_fifo has run.
after_sprite_fill(p, m) ==
    IF p.cycles_waste > 0 THEN stall_for_sprite(p) ELSE output_pixel(p, m)

\* render from the test of the sprite FIFO on.
refill_sprites(p, m) ==
    IF p.sprite_fifo = << >>
      THEN after_sprite_fill(fill_sprite_fifo(p, m), m)
      ELSE output_pixel(p, m)

render(p, m) == refill_sprites(refill_background(start_window(p, m), m), m)

\* The while loop of oamscan from `address` on.
RECURSIVE scan_from(_, _, _, _, _)
scan_from(address, buffer, ly, obj_size, m) ==
    IF Len(buffer) < 10 /\ address < \hFEA0
      THEN LET obj_y == read_byte(m, address)
               hit == obj_y <= ly + 16 /\ ly + 16 < obj_y + obj_size
           IN  scan_from(address + 4,
                         IF hit THEN Append(buffer, address) ELSE buffer,
                         ly, obj_size, m)
      ELSE buffer

oamscan_short_only(p, m) ==
    [p EXCEPT !.sprite_buffer = scan_from(OAM_BASE, @, p.ly, 8, m)]

oamscan(p, m) ==
    LET obj_size == IF is_bit_set(read_byte(m, LCDC), 2) THEN 16 ELSE 8
    IN  [p EXCEPT !.sprite_buffer = scan_from(OAM_BASE, @, p.ly, obj_size, m)]

\* The lengths of the two FIFOs at the pop of render, <<-1, -1>> when
\* process(p, m) does not reach it.
fifos_at_pop(p, m) ==
    LET q == refill_background(start_window(p, m), m)
        s == IF q.sprite_fifo = << >> THEN fill_sprite_fifo(q, m) ELSE q
    IN  IF p.unreachable \/ p.cycles_waste > 0 \/ p.mode # RENDER
            \/ (q.sprite_fifo = << >> /\ s.cycles_waste > 0)
          THEN <<-1, -1>>
          ELSE <<Len(s.background_fifo), Len(s.sprite_fifo)>>

\* What popped_pair returns when render pops nothing.
NoPixel ==
    [bg_pixel |-> -1,
     obj_data |-> [color |-> 0, palette_address |-> 0, bg_obj_priority_flag |-> FALSE]]

\* The background pixel and the sprite entry render pops in process(p, m),
\* NoPixel when it pops none.
popped_pair(p, m) ==
    LET q == refill_background(start_window(p, m), m)
        s == IF q.sprite_fifo = << >> THEN fill_sprite_fifo(q, m) ELSE q
    IN  IF fifos_at_pop(p, m) = <<-1, -1>> THEN NoPixel
        ELSE [bg_pixel |-> Head(s.background_fifo), obj_data |-> Head(s.sprite_fifo)]

process(p, m) ==
    IF p.cycles_waste > 0 THEN [p EXCEPT !.cycles_waste = @ - 1]
    ELSE IF p.mode = OAMSCAN THEN oamscan(p, m)
    ELSE IF p.mode = RENDER THEN render(p, m)
    ELSE p

\* self.ly = (self.ly + 1) % 0x9A
next_ly(ly) == (ly + 1) % SCANLINES

setup_for_new_scanline(p, m) ==
    LET lyc == read_byte(m, LYC)
        p1 == [p EXCEPT !.interrupt_triggered = FALSE,
                        !.background_fifo = << >>,
                        !.sprite_fifo = << >>,
                        !.sprite_buffer = << >>,
                        !.w_ly = @ + (IF p.w_present THEN 1 ELSE 0),
                        !.w_lx = 0,
                        !.w_present = FALSE,
                        !.wy = read_byte(m, WY),
                        !.wx = read_byte(m, WX),
                        !.ly = next_ly(p.ly),
                        !.lx = 0]
        m1 == write_byte(m, LY, p1.ly)
    IN  IF lyc = p1.ly
          THEN [ppu |-> [p1 EXCEPT !.interrupt_triggered = TRUE],
                mmu |-> request_interrupt(m1, 1)]
          ELSE [ppu |-> p1, mmu |-> m1]

next_cycles_spent_short(cycles_spent) ==
    (cycles_spent + 1) % (MAX_CYCLES_PER_SCANLINE - 1)

\* self.cycles_spent = (self.cycles_spent + 1) % MAX_CYCLES_PER_SCANLINE
next_cycles_spent(cycles_spent) == (cycles_spent + 1) % MAX_CYCLES_PER_SCANLINE

clear_frame_ready_never(p) == p

\* What tick does to frame_ready before update_mode.
clear_frame_ready(p) ==
    IF p.frame_ready THEN [p EXCEPT !.frame_ready = FALSE] ELSE p

\* The end of tick: cycles_spent advances, and a new scanline starts at 0.
count_cycle(p, m) ==
    IF next_cycles_spent(p.cycles_spent) = 0
      THEN setup_for_new_scanline([p EXCEPT !.cycles_spent = next_cycles_spent(@)], m)
      ELSE [ppu |-> [p EXCEPT !.cycles_spent = next_cycles_spent(@)], mmu |-> m]

\* tick after update_mode has returned u.
tick_after_mode(u) ==
    IF u.ppu.unreachable THEN u
    ELSE count_cycle(process(u.ppu, u.mmu), u.mmu)

tick(p, m) == tick_after_mode(update_mode(clear_frame_ready(p), m))

----------------------------------------------------------------------------
(* Cartridge: the MBC1 controller                                          *)

\* ROM_SIZE_MAP and RAM_SIZE_MAP; NotSupported where binary_search fails.
NotSupported == -1
RomBanksOf(code) ==
    CASE code = \h00 -> 2   [] code = \h01 -> 4   [] code = \h02 -> 8
      [] code = \h03 -> 16  [] code = \h04 -> 32  [] code = \h05 -> 64
      [] code = \h06 -> 128 [] code = \h07 -> 256 [] code = \h08 -> 512
      [] code = \h52 -> 72  [] code = \h53 -> 80  [] code = \h54 -> 96
      [] OTHER -> NotSupported
RamBanksOf(code) ==
    CASE code = \h00 -> 0  [] code = \h01 -> 1  [] code = \h02 -> 4
      [] code = \h03 -> 16 [] code = \h04 -> 64 [] code = \h05 -> 32
      [] OTHER -> NotSupported

\* rom_data[i] and ram_data[i] of sparse arrays.
DataAt(data, i) == IF i \in DOMAIN data THEN data[i] ELSE 0

\* read_byte with banking_mode set calls get_total_rom_banks (or
\* get_total_ram_banks), which calls read_byte(0x0148) (0x0149), which calls
\* get_total_rom_banks again: the call never returns.
StackOverflow == -2

\* MBC1::new runs with banking_mode false, so its get_total_ram_banks reads
\* rom_data[0x0149] directly.
MBC1_new(data) ==
    [ banking_mode      |-> FALSE,
      ram_enable        |-> FALSE,
      ram_bank_register |-> \h00,
      rom_bank_register |-> \h00,
      ram_data          |-> << >>,
      ram_len           |-> \h0800 * RamBanksOf(DataAt(data, \h0149)),
      rom_data          |-> data ]

\* get_total_rom_banks and get_total_ram_banks with banking_mode false.
get_total_rom_banks(c) == RomBanksOf(DataAt(c.rom_data, \h0148))
get_total_ram_banks(c) == RamBanksOf(DataAt(c.rom_data, \h0149))

Min(a, b) == IF a < b THEN a ELSE b

\* The index into ram_data of an access to external RAM (banking_mode false).
MBC1_ram_index(c, address) ==
    LET ram_bank_size == Min(\h2000, \h0800 * get_total_ram_banks(c))
    IN  (address - \hA000) % ram_bank_size

MBC1_read_byte(c, address) ==
    IF address >= \hA000 /\ address < \hC000 /\ ~c.ram_enable THEN \hFF
    ELSE IF c.banking_mode THEN StackOverflow
    ELSE IF address < \h4000 THEN DataAt(c.rom_data, address)
    ELSE IF address < \h8000
      THEN LET low == IF c.rom_bank_register = 0 THEN 1
                      ELSE BitAnd(c.rom_bank_register,
                                  Min(get_total_rom_banks(c), 32) - 1)
               high == IF get_total_rom_banks(c) <= 32 THEN 0
                       ELSE (BitAnd(c.ram_bank_register, 3) * 16) % 256
           IN  DataAt(c.rom_data,
                      \h4000 * BitOr(low, high) + address - \h4000)
    ELSE DataAt(c.ram_data, MBC1_ram_index(c, address))

MBC1_write_byte(c, address, value) ==
    IF address < \h2000 THEN [c EXCEPT !.ram_enable = BitAnd(value, \h0F) = \h0A]
    ELSE IF address < \h4000 THEN [c EXCEPT !.rom_bank_register = value]
    ELSE IF address < \h6000 THEN [c EXCEPT !.ram_bank_register = value]
    ELSE IF address < \h8000 THEN [c EXCEPT !.banking_mode = value % 2 = 1]
    ELSE IF ~c.ram_enable THEN c
    ELSE IF c.banking_mode THEN [c EXCEPT !.ram_len = StackOverflow]
    ELSE [c EXCEPT !.ram_data =
             Sparse([i \in (DOMAIN c.ram_data) \cup {MBC1_ram_index(c, address)} |->
                        IF i = MBC1_ram_index(c, address) THEN value
                                                         ELSE c.ram_data[i]])]

----------------------------------------------------------------------------
(* The timer under update_timers(1) and register writes                    *)

\* A cartridge image of zero bytes.
BlankImage == << >>

\* DIV-counter values the runs start from: the post-boot value, and values
\* eight steps before the taps fall together and before the counter wraps.
TimerStartDivs == {\hABCC, \h03F8, \hFFF8}

\* The (address, value) pairs a program writes to the timer registers.
TimerWrites ==
    {<<IO_TAC, \h05>>, <<IO_TAC, \h04>>, <<IO_TAC, \h07>>, <<IO_TAC, \h02>>,
     <<IO_TIMA, \hFF>>, <<IO_TMA, \h42>>, <<IO_TMA, \h00>>, <<IO_DIV, \h5A>>,
     <<IO_DIV, \hFF>>}

\* (selected DIV-counter bit AND TAC bit 2) of an MMU state, with the tap
\* table stated on its own: 9, 3, 5, 7 for TAC & 3 = 0, 1, 2, 3.
TapOf(tac) == <<9, 3, 5, 7>>[(tac % 4) + 1]

AndResultOf(m) ==
    /\ (m.div_counter \div (2 ^ TapOf(MemAt(m, IO_TAC)))) % 2 = 1
    /\ (MemAt(m, IO_TAC) \div 4) % 2 = 1

IdleObs ==
    [act |-> "init", address |-> 0, value |-> 0, and_result |-> FALSE, count |-> 0,
     opcode |-> NoOpcode, cycles |-> 0, was_halted |-> FALSE, panic |-> << >>]

TimerInit ==
    /\ \E d \in TimerStartDivs :
          mmu = [MMU_new(BlankImage) EXCEPT !.div_counter = d]
    /\ cpu = CPU_new
    /\ ppu = PPU_new(MMU_new(BlankImage))
    /\ cart = 0
    /\ obs = IdleObs
    /\ steps = 0

TimerUpdate ==
    /\ steps < MaxTimerSteps
    /\ mmu' = update_timers(mmu, 1)
    /\ obs' = [IdleObs EXCEPT !.act = "update", !.and_result = AndResultOf(mmu')]
    /\ steps' = steps + 1
    /\ UNCHANGED <<cpu, ppu, cart>>

TimerWrite ==
    /\ steps < MaxTimerSteps
    /\ \E w \in TimerWrites :
          /\ mmu' = write_byte(mmu, w[1], w[2])
          /\ obs' = [obs EXCEPT !.act = "write", !.address = w[1], !.value = w[2]]
    /\ UNCHANGED <<cpu, ppu, cart, steps>>

TimerNext == TimerUpdate \/ TimerWrite

SpecTimer == TimerInit /\ [][TimerNext]_vars

C17_DivCounter ==
    [][/\ obs'.act = "update" =>
             mmu'.div_counter = (mmu.div_counter + 1) % 65536
       /\ obs'.act = "write" /\ obs'.address = IO_DIV =>
             /\ mmu'.div_counter = 0
             /\ mmu'.memory = mmu.memory
             /\ read_byte(mmu', IO_DIV) = 0
       /\ obs'.act = "write" /\ obs'.address # IO_DIV =>
             mmu'.div_counter = mmu.div_counter
       /\ read_byte(mmu', IO_DIV) = mmu'.div_counter \div 256]_vars

\* C17 witness: the counter started at 0xFFF8, wrapped through 0 and reads
\* 0x00 at FF04 twelve updates later.
C17_Witness ==
    /\ obs.act = "update"
    /\ steps = 12
    /\ mmu.div_counter = 4
    /\ read_byte(mmu, IO_DIV) = 0

\* C17 second case: a write of 0x5A to FF04 after the counter had passed
\* 0x03FF left the counter at 0 and the byte at FF04 as it was.
C17_WriteCase ==
    /\ obs.act = "write" /\ obs.address = IO_DIV /\ obs.value = \h5A
    /\ steps = 9
    /\ mmu.div_counter = 0
    /\ MemAt(mmu, IO_DIV) # \h5A

----------------------------------------------------------------------------
(* The timer from the post-boot MMU with TAC, TMA and TIMA written         *)

ScenarioTmas == {\hFF, \h00, \h42}
ScenarioTimas == {\hFE, \hFF}

BootInit ==
    /\ mmu = MMU_new(BlankImage)
    /\ cpu = CPU_new
    /\ ppu = PPU_new(MMU_new(BlankImage))
    /\ cart = 0
    /\ obs = IdleObs
    /\ steps = 0

\* The program writes TAC = 0x05, TMA and TIMA; obs.value keeps the TIMA written.
BootWrites ==
    /\ obs.act = "init"
    /\ \E tma \in ScenarioTmas, tima \in ScenarioTimas :
          /\ mmu' = write_byte(write_byte(write_byte(mmu, IO_TAC, \h05),
                                          IO_TMA, tma), IO_TIMA, tima)
          /\ obs' = [IdleObs EXCEPT !.act = "write", !.address = IO_TIMA,
                                    !.value = tima]
    /\ UNCHANGED <<cpu, ppu, cart, steps>>

BootUpdate ==
    /\ obs.act # "init"
    /\ steps < MaxScenarioSteps
    /\ mmu' = update_timers(mmu, 1)
    /\ obs' = [obs EXCEPT !.act = "update", !.and_result = AndResultOf(mmu')]
    /\ steps' = steps + 1
    /\ UNCHANGED <<cpu, ppu, cart>>

BootNext == BootWrites \/ BootUpdate

SpecTimerBoot == BootInit /\ [][BootNext]_vars

\* C8: an update that overflows TIMA leaves TIMA = TMA and IF bit 2 set, so
\* an update leaves TIMA at 0x00 only when TMA is 0x00; and from the
\* post-boot MMU with TAC = 0x05, TMA = 0xFF, TIMA = 0xFE written, TIMA is
\* 0xFF after 32 updates, and 0xFF with IF bit 2 set after 48.
C8_OverflowReloadsTma ==
    [][obs'.act = "update" =>
        LET edge == obs.and_result /\ ~AndResultOf(mmu')
            tima == MemAt(mmu, IO_TIMA)
            tima2 == MemAt(mmu', IO_TIMA)
            scenario == MemAt(mmu, IO_TMA) = \hFF /\ obs.value = \hFE
        IN  /\ (edge /\ tima = 255) =>
                 /\ tima2 = MemAt(mmu, IO_TMA)
                 /\ (MemAt(mmu', IO_IF) \div 4) % 2 = 1
            /\ (tima2 = 0 /\ tima # 0) => MemAt(mmu, IO_TMA) = 0
            /\ (scenario /\ steps' = 32) => tima2 = \hFF
            /\ (scenario /\ steps' = 48) =>
                 /\ tima2 = \hFF
                 /\ (MemAt(mmu', IO_IF) \div 4) % 2 = 1]_vars

\* C8 witness: the scenario 48 updates after the writes.
C8_Witness ==
    /\ steps = 48
    /\ obs.value = \hFE
    /\ MemAt(mmu, IO_TMA) = \hFF
    /\ MemAt(mmu, IO_TIMA) = \hFF
    /\ (MemAt(mmu, IO_IF) \div 4) % 2 = 1
    /\ mmu.div_counter = \hABCC + 48

----------------------------------------------------------------------------
(* OAM DMA: the program fills work RAM, writes FF46, and time passes       *)

DmaSources == {\hC0, \hE0, \h80}
WRAM_BASE == \hC000
POKE_OFFSET == \h05
POKE_VALUE == \h99

\* The program's loop of write_byte(0xC000 + i, 3i + 1) for i < 0xA0: each is
\* a plain store of write_byte's last arm.
fill_wram(m) ==
    LET block == WRAM_BASE..(WRAM_BASE + OAM_SIZE - 1)
    IN  [m EXCEPT !.memory =
            Sparse([a \in (DOMAIN m.memory) \cup block |->
                       IF a \in block THEN (3 * (a - WRAM_BASE) + 1) % 256
                                      ELSE m.memory[a]])]

OamOf(m) == [i \in 0..(OAM_SIZE - 1) |-> MemAt(m, OAM_BASE + i)]

DmaFill ==
    /\ obs.act = "init"
    /\ mmu' = fill_wram(mmu)
    /\ obs' = [IdleObs EXCEPT !.act = "fill"]
    /\ UNCHANGED <<cpu, ppu, cart, steps>>

\* A write to FF46: the first one, one that re-arms a pending transfer, or a
\* second one after the first has completed.  steps restarts and counts the
\* updates since this write.
DmaStart ==
    /\ \/ obs.act = "fill"
       \/ obs.count = 1 /\ steps \in 1..MaxRearmAt
       \/ obs.count = 1 /\ obs.act = "update" /\ mmu.dma_cycles_counter = 0
    /\ \E v \in DmaSources :
          /\ mmu' = write_byte(mmu, IO_DMA, v)
          /\ obs' = [obs EXCEPT !.act = "start", !.address = IO_DMA, !.value = v,
                                !.count = obs.count + 1]
    /\ steps' = 0
    /\ UNCHANGED <<cpu, ppu, cart>>

\* A CPU store into the source page while the transfer is pending.
DmaPoke ==
    /\ obs.act = "start"
    /\ mmu' = write_byte(mmu, WRAM_BASE + POKE_OFFSET, POKE_VALUE)
    /\ obs' = [obs EXCEPT !.act = "poke"]
    /\ UNCHANGED <<cpu, ppu, cart, steps>>

DmaUpdate ==
    /\ obs.act # "init"
    /\ steps < MaxDmaSteps
    /\ mmu' = update_timers(mmu, 1)
    /\ obs' = [obs EXCEPT !.act = "update", !.and_result = AndResultOf(mmu')]
    /\ steps' = steps + 1
    /\ UNCHANGED <<cpu, ppu, cart>>

DmaNext == DmaFill \/ DmaStart \/ DmaPoke \/ DmaUpdate

SpecDma == BootInit /\ [][DmaNext]_vars

----------------------------------------------------------------------------
(* The CPU on small cartridge programs, with interrupt requests arriving   *)
(* between its steps                                                       *)

ENTRY == \h0100
BodyOps == {OP_NOP, OP_EI, OP_DI, OP_HALT, OP_RETI}
SetupOps == {OP_LD_SP_D16, OP_LD_A_D8, OP_LDH_A8_A}
StackTops == {\hFFFE, \h0000, \h0001}
EnableMasks == {\h1F, \h04}
PendingMasks == {\h00, \h14}
VectorOps == {OP_RETI}
RequestBits == {0, 1, 2, 4}
Vectors == {\h0040, \h0048, \h0050, \h0058, \h0060}

\* LD SP,d16 unless sp is the value CPU::new leaves.
SetSP(sp) ==
    IF sp = \hFFFE THEN << >> ELSE <<OP_LD_SP_D16, sp % 256, sp \div 256>>

\* LD A,d8 ; LDH (a8),A
SetReg(a8, d8) == <<OP_LD_A_D8, d8, OP_LDH_A8_A, a8>>

\* The cartridge image holding `code` at the entry point and `vec` at
\* every interrupt vector.
ImageOf(code, vec) ==
    Sparse([a \in Vectors \cup {ENTRY + i - 1 : i \in 1..Len(code)} |->
               IF a \in Vectors THEN vec ELSE code[a - ENTRY + 1]])

CpuImages ==
    { ImageOf(SetSP(sp) \o SetReg(\hFF, ie) \o SetReg(\h0F, pending) \o body, vec) :
        sp \in StackTops, ie \in EnableMasks, pending \in PendingMasks,
        body \in [1..3 -> BodyOps], vec \in VectorOps }

CpuInit ==
    /\ \E image \in CpuImages : mmu = MMU_new(image)
    /\ cpu = CPU_new
    /\ ppu = PPU_new(MMU_new(BlankImage))
    /\ cart = 0
    /\ obs = IdleObs
    /\ steps = 0

CpuStep ==
    /\ steps < MaxCpuSteps
    /\ StepModelled(cpu, mmu)
    /\ \E r \in {execute_next(cpu, mmu)} :
           /\ cpu' = r.cpu
           /\ mmu' = r.mmu
           /\ obs' = [obs EXCEPT !.act = "step", !.opcode = r.opcode,
                                 !.cycles = r.cycles,
                                 !.was_halted = cpu.low_power_mode]
    /\ steps' = steps + 1
    /\ UNCHANGED <<ppu, cart>>

\* The timer, the PPU or the joypad raises an IF bit between two CPU steps,
\* once the program has finished its setup.
CpuRequest ==
    /\ obs.count < MaxRequests
    /\ obs.act = "step"
    /\ obs.opcode \notin SetupOps
    /\ \E bit \in RequestBits :
          /\ mmu' = request_interrupt(mmu, bit)
          /\ obs' = [obs EXCEPT !.act = "request", !.value = bit,
                                !.count = obs.count + 1]
    /\ UNCHANGED <<cpu, ppu, cart, steps>>

CpuNext == CpuStep \/ CpuRequest

SpecCpu == CpuInit /\ [][CpuNext]_vars

\* IE & IF & 0x1F and its lowest set bit, read off the registers.
PendingOf(m) == BitAnd(BitAnd(MemAt(m, IO_IE), MemAt(m, IO_IF)), \h1F)
LowestBit(x) ==
    CHOOSE k \in 0..4 :
        /\ (x \div (2 ^ k)) % 2 = 1
        /\ \A j \in 0..(k - 1) : (x \div (2 ^ j)) % 2 = 0

\* Addresses where write_byte stores the byte it is given.
PlainStore(a) ==
    \/ a \in \hC000..\hDFFF
    \/ a \in \hFF80..\hFFFF

\* What a step that dispatches does, apart from what it does to IE.
DispatchEffect ==
    LET k == LowestBit(PendingOf(mmu))
        hi == (cpu.sp - 1) % 65536
        lo == (cpu.sp - 2) % 65536
    IN  /\ MemAt(mmu', IO_IF) = MemAt(mmu, IO_IF) - 2 ^ k
        /\ ~cpu'.ime
        /\ cpu'.sp = lo
        /\ PlainStore(hi) => MemAt(mmu', hi) = cpu.pc \div 256
        /\ PlainStore(lo) => MemAt(mmu', lo) = cpu.pc % 256
        /\ cpu'.pc = \h40 + 8 * k
        /\ obs'.opcode = NoOpcode
        /\ [cpu' EXCEPT !.pc = cpu.pc, !.sp = cpu.sp, !.ime = cpu.ime,
                        !.low_power_mode = cpu.low_power_mode] = cpu
        /\ obs'.cycles = 20

\* A step that fetched no opcode and pushed a word.
Dispatched == obs'.opcode = NoOpcode /\ cpu'.sp = (cpu.sp - 2) % 65536

\* C4 as stated: a step dispatches iff IME is set and IE & IF & 0x1F # 0; it
\* services the lowest such bit, clears only that bit of IF, leaves IE
\* unchanged, clears IME, pushes PC, jumps to 0x40 + 8*bit, executes no
\* opcode and returns 20.
C4_AsStated ==
    [][obs'.act = "step" =>
        /\ Dispatched <=> (cpu.ime /\ PendingOf(mmu) # 0)
        /\ Dispatched => (DispatchEffect /\ MemAt(mmu', IO_IE) = MemAt(mmu, IO_IE))
      ]_vars

\* C4 amended: as stated, except that IE is unchanged only when neither
\* pushed byte lands on FFFF; a pushed byte that lands on FFFF replaces IE.
C4_DispatchLowestPending ==
    [][obs'.act = "step" =>
        /\ Dispatched <=> (cpu.ime /\ PendingOf(mmu) # 0)
        /\ Dispatched =>
             /\ DispatchEffect
             /\ (cpu.sp \notin {\h0000, \h0001}) => MemAt(mmu', IO_IE) = MemAt(mmu, IO_IE)
      ]_vars

\* C4 witness: a dispatch just happened with two enabled bits pending, the
\* lower one serviced and the higher one still pending.
C4_Witness ==
    /\ obs.act = "step" /\ obs.opcode = NoOpcode /\ obs.cycles = 20
    /\ cpu.pc = \h0050
    /\ MemAt(mmu, IO_IF) = \h10
    /\ MemAt(mmu, IO_IE) = \h1F
    /\ cpu.sp = \hFFFC

\* C5 as stated: EI leaves IME as it was; between an EI and the end of the
\* next non-EI instruction no interrupt is dispatched, a further EI keeps
\* the promotion scheduled, and the first non-EI instruction that retires
\* sets IME (unless it is DI).
C5_AsStated ==
    [][obs'.act = "step" =>
        /\ obs'.opcode = OP_EI => (cpu'.ime = cpu.ime /\ cpu'.ime_scheduled)
        /\ obs.opcode = OP_EI =>
             /\ ~Dispatched
             /\ obs'.opcode # NoOpcode
             /\ obs'.opcode \notin {OP_EI, OP_DI} => cpu'.ime
      ]_vars

\* C5 amended: the same for an EI executed with IME clear, the instruction
\* after the EIs setting IME unless it is DI.
C5_EiDelaysOneInstruction ==
    [][obs'.act = "step" =>
        /\ obs'.opcode = OP_EI => (cpu'.ime = cpu.ime /\ cpu'.ime_scheduled)
        /\ (obs.opcode = OP_EI /\ ~cpu.ime) =>
             /\ ~Dispatched
             /\ obs'.opcode # NoOpcode
             /\ obs'.opcode = OP_EI => ~cpu'.ime
             /\ obs'.opcode # OP_EI =>
                  (cpu'.ime <=> obs'.opcode # OP_DI) /\ ~cpu'.ime_scheduled
      ]_vars

\* C5 witness: EI, EI, NOP has just retired with an enabled interrupt pending
\* throughout, and IME is now set.
C5_Witness ==
    /\ obs.act = "step" /\ obs.opcode = OP_NOP
    /\ read_byte(mmu, (cpu.pc - 2) % 65536) = OP_EI
    /\ read_byte(mmu, (cpu.pc - 3) % 65536) = OP_EI
    /\ cpu.pc > ENTRY + 8
    /\ cpu.ime /\ ~cpu.ime_scheduled
    /\ cpu.sp = \hFFFE
    /\ obs.count = 0
    /\ PendingOf(mmu) # 0

\* C18: DI leaves IME false and no EI pending, and from then on every step
\* that executes neither EI nor RETI keeps IME false, keeps no EI pending
\* and dispatches no interrupt; so EI directly followed by DI never enables
\* interrupts.
C18_DiCancelsPendingEi ==
    [][obs'.act = "step" =>
        /\ obs'.opcode = OP_DI => ~cpu'.ime /\ ~cpu'.ime_scheduled
        /\ (~cpu.ime /\ ~cpu.ime_scheduled /\ obs'.opcode \notin {OP_EI, OP_RETI}) =>
             ~cpu'.ime /\ ~cpu'.ime_scheduled /\ ~Dispatched
      ]_vars

\* C18 witness: EI, DI, NOP has just retired with an enabled interrupt
\* pending, nothing was pushed and IME is still false.
C18_Witness ==
    /\ obs.act = "step" /\ obs.opcode = OP_NOP
    /\ read_byte(mmu, (cpu.pc - 2) % 65536) = OP_DI
    /\ read_byte(mmu, (cpu.pc - 3) % 65536) = OP_EI
    /\ cpu.pc > ENTRY + 8
    /\ ~cpu.ime /\ ~cpu.ime_scheduled
    /\ cpu.sp = \hFFFE
    /\ PendingOf(mmu) # 0

\* C6: a halted step with IE & IF & 0x1F = 0 returns 4 without fetching and
\* changes neither the CPU nor memory; a halted step with an enabled
\* interrupt pending and IME clear dispatches nothing, leaves IF unchanged
\* and executes the instruction at PC, so that it ends halted only if that
\* instruction is HALT.
C6_HaltIdlesUntilPending ==
    [][(obs'.act = "step" /\ cpu.low_power_mode) =>
        IF PendingOf(mmu) = 0
          THEN /\ obs'.cycles = 4
               /\ obs'.opcode = NoOpcode
               /\ cpu' = cpu
               /\ mmu' = mmu
          ELSE ~cpu.ime =>
                 /\ ~Dispatched
                 /\ MemAt(mmu', IO_IF) = MemAt(mmu, IO_IF)
                 /\ obs'.opcode = read_byte(mmu, cpu.pc)
                 /\ cpu'.low_power_mode <=> obs'.opcode = OP_HALT
      ]_vars

\* C6 witness: a halted CPU with IME clear was woken by a request and has
\* executed the NOP after HALT without dispatching.
C6_Witness ==
    /\ obs.act = "step" /\ obs.was_halted /\ obs.opcode = OP_NOP
    /\ ~cpu.low_power_mode /\ ~cpu.ime
    /\ obs.count = 1
    /\ PendingOf(mmu) # 0
    /\ read_byte(mmu, (cpu.pc - 2) % 65536) = OP_HALT

----------------------------------------------------------------------------
(* The PPU ticking from cold boot, with the CPU storing to its registers   *)

\* Register stores a program makes before the first tick: none; or window
\* on with WX = 7, SCX = 5, all STAT interrupt sources and LYC = 2; or the
\* HBLANK and VBLANK sources of STAT with LYC = 144.
PpuSetups ==
    { << >>,
      << <<LCDC, \hB3>>, <<WX, \h07>>, <<SCX, \h05>>, <<STAT, \h78>>, <<LYC, \h02>> >>,
      << <<STAT, \h18>>, <<LYC, \h90>> >> }

\* Stores a program makes between two ticks: LCDC = 0 (LCD off); or LY and
\* SCX overwritten and an object put in OAM slot 0 over the left edge of
\* lines 0..7.
PpuPokes ==
    { << <<LCDC, \h00>> >>,
      << <<LY, \h99>>, <<SCX, \h03>>, <<OAM_BASE, 16>>, <<OAM_BASE + 1, 10>> >> }

\* The tick after which a poke may happen: in the first line's pixel transfer.
PokeTicks == {100}

RECURSIVE store_all(_, _)
store_all(m, writes) ==
    IF writes = << >> THEN m
    ELSE store_all(write_byte(m, Head(writes)[1], Head(writes)[2]), Tail(writes))

PpuInit ==
    /\ mmu = MMU_new(BlankImage)
    /\ cpu = CPU_new
    /\ ppu = PPU_new(MMU_new(BlankImage))
    /\ cart = 0
    /\ obs = IdleObs
    /\ steps = 0

PpuSetup ==
    /\ obs.act = "init"
    /\ \E writes \in PpuSetups :
          mmu' = store_all(mmu, writes)
    /\ obs' = [IdleObs EXCEPT !.act = "setup"]
    /\ UNCHANGED <<cpu, ppu, cart, steps>>

\* obs.value is 1 once a poke has happened.
PpuPoke ==
    /\ obs.act = "tick"
    /\ steps \in PokeTicks
    /\ obs.value = 0
    /\ \E writes \in PpuPokes :
          mmu' = store_all(mmu, writes)
    /\ obs' = [obs EXCEPT !.act = "poke", !.value = 1]
    /\ UNCHANGED <<cpu, ppu, cart, steps>>

\* One ppu.tick; steps counts the ticks, obs.count the ticks since the last
\* tick that left frame_ready set, obs.address the number of such ticks.
PpuTick ==
    /\ obs.act # "init"
    /\ steps < MaxPpuTicks
    /\ ~ppu.unreachable
    /\ \E r \in {tick(ppu, mmu)} :
           /\ ppu' = r.ppu
           /\ mmu' = r.mmu
           /\ obs' = [obs EXCEPT !.act = "tick",
                                 !.count = IF r.ppu.frame_ready THEN 0 ELSE @ + 1,
                                 !.address = IF r.ppu.frame_ready THEN @ + 1 ELSE @]
    /\ steps' = steps + 1
    /\ UNCHANGED <<cpu, cart>>

PpuNext == PpuSetup \/ PpuPoke \/ PpuTick

SpecPpu == PpuInit /\ [][PpuNext]_vars

\* Ticks per frame, and the tick of a frame after which the mode is first VBLANK.
FRAME_TICKS == MAX_CYCLES_PER_SCANLINE * SCANLINES
VBLANK_TICK == MAX_CYCLES_PER_SCANLINE * VISIBLE_LINES + 1

\* C2: frame_ready is set after a tick exactly when that tick changed the
\* mode to VBLANK, which is exactly one tick of each 154-line frame, and
\* consecutive such ticks are 70,224 ticks apart.
C2_FrameReadyOncePerFrame ==
    [][obs'.act = "tick" =>
        /\ ppu'.frame_ready <=> (ppu'.mode = VBLANK /\ ppu.mode # VBLANK)
        /\ ppu'.frame_ready <=> (steps' % FRAME_TICKS = VBLANK_TICK)
        /\ (ppu'.frame_ready /\ obs.address > 0) => obs.count + 1 = 70224
      ]_vars

\* C2 witness: the second raise, 70,224 ticks after the first.
C2_Witness ==
    /\ obs.act = "tick"
    /\ ppu.frame_ready
    /\ obs.address = 2
    /\ steps = 65665 + 70224

\* Whether the tick from (p, m) requests interrupt `bit`: the bit is set in
\* IF after the tick when the program has acknowledged every request before.
RequestedBy(p, m, bit) ==
    is_bit_set(read_byte(tick(p, write_byte(m, IO_IF, 0)).mmu, IO_IF), bit)

\* C19: a tick requests the VBLANK interrupt (IF bit 0) exactly when it
\* changes the mode from HBLANK to VBLANK, which is the tick at LY = 144,
\* cycles_spent = 0, once per frame; that tick leaves W_LY at 0 and
\* frame_ready set; and every tick of lines 144..153 leaves the mode VBLANK.
C19_VblankRequestedOncePerFrame ==
    [][obs'.act = "tick" =>
        /\ RequestedBy(ppu, mmu, 0) <=> (ppu.mode = HBLANK /\ ppu'.mode = VBLANK)
        /\ RequestedBy(ppu, mmu, 0) <=> (ppu.ly = VISIBLE_LINES /\ ppu.cycles_spent = 0)
        /\ RequestedBy(ppu, mmu, 0) <=> (steps' % FRAME_TICKS = VBLANK_TICK)
        /\ RequestedBy(ppu, mmu, 0) =>
              /\ is_bit_set(read_byte(mmu', IO_IF), 0)
              /\ ppu'.w_ly = 0
              /\ ppu'.frame_ready
        /\ ppu.ly \in VISIBLE_LINES..(SCANLINES - 1) => ppu'.mode = VBLANK
      ]_vars

\* C19 witness: the second VBLANK request of a run with the window shown,
\* one frame after the first; W_LY is back at 0.
C19_Witness ==
    /\ obs.act = "tick"
    /\ steps = FRAME_TICKS + VBLANK_TICK
    /\ ppu.mode = VBLANK /\ ppu.ly = VISIBLE_LINES /\ ppu.cycles_spent = 1
    /\ ppu.frame_ready
    /\ ppu.w_ly = 0
    /\ MemAt(mmu, LCDC) = \hB3
    /\ is_bit_set(read_byte(mmu, IO_IF), 0)

\* C40: the PPU is constructed in mode VBLANK at LY = 0, cycles_spent = 0;
\* its first tick enters the OAM scan of line 0; the first tick that sets
\* frame_ready and requests VBLANK is tick 144 * 456 + 1 = 65,665 and the
\* next one tick 65,665 + 70,224, with none in between.
C40_FirstFrameFromColdBoot ==
    [][obs'.act = "tick" =>
        /\ steps = 0 =>
              /\ ppu.mode = VBLANK /\ ppu.ly = 0 /\ ppu.cycles_spent = 0
              /\ ppu'.mode = OAMSCAN /\ ppu'.ly = 0 /\ ppu'.cycles_spent = 1
        /\ steps' \in {VBLANK_TICK, VBLANK_TICK + FRAME_TICKS} =>
              /\ ppu'.frame_ready
              /\ RequestedBy(ppu, mmu, 0)
        /\ steps' \notin {VBLANK_TICK, VBLANK_TICK + FRAME_TICKS} =>
              /\ ~ppu'.frame_ready
              /\ ~RequestedBy(ppu, mmu, 0)
        /\ steps' = VBLANK_TICK => obs.address = 0 /\ obs'.address = 1
        /\ VBLANK_TICK = 65665 /\ FRAME_TICKS = 70224
      ]_vars

\* The first frame has just been completed, on tick 65,665 from cold boot.
C40_Witness ==
    /\ obs.act = "tick"
    /\ steps = VBLANK_TICK
    /\ obs.address = 1
    /\ ppu.frame_ready
    /\ ppu.mode = VBLANK /\ ppu.ly = VISIBLE_LINES
    /\ is_bit_set(read_byte(mmu, IO_IF), 0)

\* C20: a tick requests the STAT interrupt (IF bit 1) exactly when it enters
\* a mode m other than RENDER with STAT bit 3 + m set and no STAT request
\* made yet on the scanline, or when it starts a scanline with LYC = LY;
\* interrupt_triggered records whether the scanline has had its request, so
\* no scanline has two, the LYC = LY request included.
C20_StatRequestOncePerScanline ==
    [][obs'.act = "tick" =>
        LET entered == ppu'.mode # ppu.mode
            boundary == ppu'.cycles_spent = 0
            mode_request ==
                /\ entered
                /\ ppu'.mode # RENDER
                /\ is_bit_set(read_byte(mmu, STAT), 3 + ppu'.mode)
                /\ ~ppu.interrupt_triggered
            lyc_request == boundary /\ read_byte(mmu, LYC) = ppu'.ly
        IN  /\ ~(entered /\ boundary)
            /\ RequestedBy(ppu, mmu, 1) <=> (mode_request \/ lyc_request)
            /\ RequestedBy(ppu, mmu, 1) => is_bit_set(read_byte(mmu', IO_IF), 1)
            /\ ppu'.interrupt_triggered =
                  IF boundary THEN lyc_request
                  ELSE (ppu.interrupt_triggered \/ mode_request)
      ]_vars

\* C20 witness: with the HBLANK and VBLANK sources on and LYC = 144, line 144
\* started with the LYC = LY request, and the entry into VBLANK one tick
\* later requested nothing more.
C20_Witness ==
    /\ obs.act = "tick"
    /\ steps = VBLANK_TICK
    /\ ppu.mode = VBLANK
    /\ ppu.interrupt_triggered
    /\ MemAt(mmu, STAT) = \h19
    /\ MemAt(mmu, LYC) = VISIBLE_LINES
    /\ is_bit_set(read_byte(mmu, IO_IF), 1)

\* C21: a tick that starts a scanline leaves the new LY in FF44 and, when
\* LYC equals the new LY, leaves STAT bit 2 set and requests the STAT
\* interrupt (IF bit 1).
C21_LycMatchSetsStatBit ==
    [][obs'.act = "tick" /\ ppu'.cycles_spent = 0 =>
        /\ read_byte(mmu', LY) = ppu'.ly
        /\ read_byte(mmu', LYC) = ppu'.ly =>
              /\ is_bit_set(read_byte(mmu', STAT), 2)
              /\ RequestedBy(ppu, mmu, 1)
              /\ is_bit_set(read_byte(mmu', IO_IF), 1)
      ]_vars

\* C30: on a visible scanline the tick with cycles_spent 0..79 leaves the
\* mode OAMSCAN, the tick with cycles_spent = 80 makes it RENDER, it stays
\* RENDER until the first tick that finds LX = 160, which makes it HBLANK,
\* and it stays HBLANK through the tick with cycles_spent = 455; the tick
\* that starts line 144 makes it VBLANK. The mode changes in no other way.
C30_VisibleLineModeOrder ==
    [][obs'.act = "tick" =>
        /\ ~ppu'.unreachable
        /\ ppu.ly < VISIBLE_LINES =>
              /\ ppu.cycles_spent \in 0..79 => ppu'.mode = OAMSCAN
              /\ ppu.cycles_spent = 80 => ppu.mode = OAMSCAN /\ ppu'.mode = RENDER
              /\ ppu.cycles_spent > 80 =>
                    /\ ppu.mode \in {RENDER, HBLANK}
                    /\ ppu'.mode = IF ppu.mode = RENDER /\ ppu.lx < WIDTH
                                     THEN RENDER ELSE HBLANK
              /\ ppu.mode = RENDER => ppu.lx <= WIDTH
              /\ ppu.cycles_spent = 455 => ppu'.mode = HBLANK /\ ppu.lx = WIDTH
        /\ (ppu.ly = VISIBLE_LINES /\ ppu.cycles_spent = 0) =>
              ppu.mode = HBLANK /\ ppu'.mode = VBLANK
        /\ ppu'.mode # ppu.mode =>
              <<ppu.mode, ppu'.mode>> \in
                 {<<OAMSCAN, RENDER>>, <<RENDER, HBLANK>>, <<HBLANK, OAMSCAN>>,
                  <<HBLANK, VBLANK>>, <<VBLANK, OAMSCAN>>}
      ]_vars

\* Line 143 has ended in HBLANK and the first tick of line 144 has made
\* the mode VBLANK, in a run with the window on and SCX = 5.
C30_Witness ==
    /\ obs.act = "tick"
    /\ ppu.mode = VBLANK
    /\ ppu.ly = VISIBLE_LINES
    /\ ppu.cycles_spent = 1
    /\ MemAt(mmu, SCX) = 5

\* C3: every tick advances cycles_spent by one modulo 456 within 0..455; LY
\* changes exactly on the tick that returns cycles_spent to 0, to
\* (LY + 1) mod 154, within 0..153; so the n-th tick ends n mod 456 cycles
\* into line (n div 456) mod 154, whatever the registers hold.
C3_LineAndFrameLength ==
    [][obs'.act = "tick" =>
        /\ ppu'.cycles_spent \in 0..455
        /\ ppu'.cycles_spent = (ppu.cycles_spent + 1) % 456
        /\ ppu'.ly \in 0..153
        /\ ppu'.ly = IF ppu'.cycles_spent = 0 THEN (ppu.ly + 1) % 154 ELSE ppu.ly
        /\ ppu'.cycles_spent = steps' % 456
        /\ ppu'.ly = (steps' \div 456) % 154
        /\ ~ppu'.unreachable
      ]_vars

\* C3 witness: LY has wrapped from 153 to 0 after 70,224 ticks of a run in
\* which the program stored to the PPU registers mid-line.
C3_Witness ==
    /\ obs.act = "tick"
    /\ obs.value = 1
    /\ steps = 70224
    /\ ppu.ly = 0 /\ ppu.cycles_spent = 0
    /\ MemAt(mmu, LCDC) = 0

----------------------------------------------------------------------------
(* The emulator's main loop: a CPU step, then update_timers(1) and         *)
(* ppu.tick once per T-cycle the step returned                             *)

\* The buttons in the order update_joypad polls them.
PollOrder == <<6, 7, 5, 4, 0, 1, 3, 2>>

update_joypad_key(m, down, button) ==
    IF button \in down THEN press_key(m, button) ELSE release_key(m, button)

RECURSIVE poll_from(_, _, _)
poll_from(m, down, i) ==
    IF i > Len(PollOrder) THEN m
    ELSE poll_from(update_joypad_key(m, down, PollOrder[i]), down, i + 1)

\* update_joypad with the set `down` of buttons whose key is held.
update_joypad(m, down) == poll_from(m, down, 1)

KeySets == {{}, {0}, {3, 7}}

\* The values the programs store to STAT, and the programs: LD A,d8 ;
\* LDH (0x41),A followed by NOPs or by HALT.
StatStores == {\h00, \h01, \h7B, \h82}
MainImages ==
    { ImageOf(SetReg(\h41, d8) \o tail, OP_RETI) :
        d8 \in StatStores, tail \in {<<OP_NOP>>, <<OP_HALT>>} }

MainInit ==
    /\ \E image \in MainImages :
          /\ mmu = MMU_new(image)
          /\ ppu = PPU_new(MMU_new(image))
    /\ cpu = CPU_new
    /\ cart = 0
    /\ obs = IdleObs
    /\ steps = 0

\* cpu.execute_next; obs.cycles is the number of T-cycles still to run.
MainExecute ==
    /\ obs.cycles = 0
    /\ steps < MaxMainSteps
    /\ StepModelled(cpu, mmu)
    /\ \E r \in {execute_next(cpu, mmu)} :
           /\ cpu' = r.cpu
           /\ mmu' = r.mmu
           /\ obs' = [obs EXCEPT !.act = "execute", !.opcode = r.opcode,
                                 !.cycles = r.cycles,
                                 !.was_halted = cpu.low_power_mode]
    /\ steps' = steps + 1
    /\ UNCHANGED <<ppu, cart>>

\* One pass of the per-cycle closure.
MainCycle ==
    /\ obs.cycles > 0
    /\ ~ppu.unreachable
    /\ \E t \in {tick(ppu, update_timers(mmu, 1))} :
           /\ ppu' = t.ppu
           /\ IF t.ppu.frame_ready
                THEN \E down \in KeySets : mmu' = update_joypad(t.mmu, down)
                ELSE mmu' = t.mmu
    /\ obs' = [obs EXCEPT !.act = "cycle", !.cycles = @ - 1]
    /\ steps' = steps + 1
    /\ UNCHANGED <<cpu, cart>>

Next == MainExecute \/ MainCycle

Spec == MainInit /\ [][Next]_vars

\* C1: after every PPU tick, bits 0-1 of STAT equal the PPU's mode, also
\* when the CPU has stored to FF41 between ticks.
C1_StatMirrorsMode ==
    obs.act = "cycle" => MemAt(mmu, STAT) % 4 = ppu.mode

----------------------------------------------------------------------------
(* An MBC1 cartridge image loaded into the MMU, and the bus accesses a     *)
(* program makes to the cartridge ranges                                   *)

\* A 64 KiB MBC1+RAM image (type 0x03, ROM code 0x01, RAM code 0x02) whose
\* bank b holds the byte 0xB0 + b at offset 0x10.
BANK_SIZE == \h4000
MARK == \h10
CartRom ==
    (\h0147 :> \h03) @@ (\h0148 :> \h01) @@ (\h0149 :> \h02) @@
    [a \in {BANK_SIZE * b + MARK : b \in 0..3} |-> \hB0 + (a \div BANK_SIZE)]

\* cartridge[0x0000..0x8000], what MMU::new copies.
FirstBanks(data) == [a \in {b \in DOMAIN data : b < \h8000} |-> data[a]]

CartWrites ==
    {<<\h0000, \h0A>>, <<\h0000, \h00>>, <<\h2000, \h02>>, <<\h2100, \h03>>,
     <<\h6000, \h01>>, <<\hA000, \h5A>>, <<\hC000, \h77>>}
CartReads == {BANK_SIZE + MARK, \hA000, \hC000, MARK}

CartInit ==
    /\ mmu = MMU_new(FirstBanks(CartRom))
    /\ cart = MBC1_new(CartRom)
    /\ cpu = CPU_new
    /\ ppu = PPU_new(MMU_new(FirstBanks(CartRom)))
    /\ obs = IdleObs
    /\ steps = 0

\* mmu.write_byte, the only write a CPU instruction can make; obs.and_result
\* tells whether the last store to 0000-1FFF had low nibble 0xA.
CartMmuWrite ==
    /\ steps < MaxCartSteps
    /\ \E w \in CartWrites :
          /\ mmu' = write_byte(mmu, w[1], w[2])
          /\ obs' = [obs EXCEPT !.act = "mmu_write", !.address = w[1], !.value = w[2],
                                !.and_result = IF w[1] < \h2000
                                                 THEN w[2] % 16 = 10 ELSE @]
    /\ steps' = steps + 1
    /\ UNCHANGED <<cpu, ppu, cart>>

\* mmu.read_byte
CartMmuRead ==
    /\ steps < MaxCartSteps
    /\ \E a \in CartReads :
          obs' = [obs EXCEPT !.act = "mmu_read", !.address = a,
                             !.value = read_byte(mmu, a)]
    /\ steps' = steps + 1
    /\ UNCHANGED <<mmu, cpu, ppu, cart>>

\* Cartridge::write_byte called on the controller itself.
CartWrite ==
    /\ steps < MaxCartSteps
    /\ cart.ram_len # StackOverflow
    /\ \E w \in CartWrites :
          /\ w[1] < \h8000 \/ w[1] \in \hA000..\hBFFF
          /\ cart' = MBC1_write_byte(cart, w[1], w[2])
          /\ obs' = [obs EXCEPT !.act = "cart_write", !.address = w[1], !.value = w[2]]
    /\ steps' = steps + 1
    /\ UNCHANGED <<mmu, cpu, ppu>>

\* Cartridge::read_byte called on the controller itself.
CartRead ==
    /\ steps < MaxCartSteps
    /\ cart.ram_len # StackOverflow
    /\ \E a \in CartReads :
          /\ a < \h8000 \/ a \in \hA000..\hBFFF
          /\ obs' = [obs EXCEPT !.act = "cart_read", !.address = a,
                                !.value = MBC1_read_byte(cart, a)]
    /\ steps' = steps + 1
    /\ UNCHANGED <<mmu, cpu, ppu, cart>>

CartNext == CartMmuWrite \/ CartMmuRead \/ CartWrite \/ CartRead

SpecCart == CartInit /\ [][CartNext]_vars

\* C10: an MMU write of bank b to 2000-3FFF makes MMU reads of 4000-7FFF
\* return ROM bank b, and an MMU write to external RAM, once RAM has been
\* enabled through the MMU, is returned by an MMU read of the same address.
C10_MmuWritesReachTheMbc ==
    [][obs'.act = "mmu_write" =>
        /\ (obs'.address \in \h2000..\h3FFF /\ obs'.value \in 1..3) =>
              read_byte(mmu', BANK_SIZE + MARK) = \hB0 + obs'.value
        /\ (obs'.address \in \hA000..\hBFFF /\ obs.and_result) =>
              read_byte(mmu', obs'.address) = obs'.value
      ]_vars

----------------------------------------------------------------------------
(* One execute_next from every flag state, on every base and CB opcode     *)

OPS_HL == \hC080
OPS_SP == \hD000
OPS_HIGH == \h12
FlagStates == {16 * n : n \in 0..15}
StackLows == {\h00, \h0F, \hA7, \hFF}
FirstOperands == {\h05, \hFE}
SecondOperand == \hC0
OP_PREFIX == \hCB
OP_POP_AF == \hF1

\* The opcode and its operand bytes: every CB opcode, and every base opcode
\* with each first operand.
OpsPrograms ==
    {<<OP_PREFIX, nn, SecondOperand>> : nn \in 0..255}
      \cup {<<opcode, d8, SecondOperand>> :
               opcode \in (0..255) \ {OP_PREFIX}, d8 \in FirstOperands}

\* The registers of a running program: r8 values the loads can leave, HL and
\* SP in work RAM, the flags in f.
OpsCpu(f) ==
    [CPU_new EXCEPT !.a = \h3C, !.f = f, !.b = \hFF, !.c = \h13, !.d = \hC1,
                    !.e = \h00, !.h = OPS_HL \div 256, !.l = OPS_HL % 256,
                    !.sp = OPS_SP]

\* The memory of that program: the instruction at the entry point, a byte
\* under HL and two bytes on top of the stack.
OpsMmu(program, low) ==
    SetMem(SetMem(SetMem(MMU_new(ImageOf(program, OP_RETI)), OPS_HL, \h7F),
                  OPS_SP, low), OPS_SP + 1, OPS_HIGH)

OpsInit ==
    /\ \E f \in FlagStates : cpu = OpsCpu(f)
    /\ \E program \in OpsPrograms, low \in StackLows : mmu = OpsMmu(program, low)
    /\ ppu = PPU_new(MMU_new(BlankImage))
    /\ cart = 0
    /\ obs = IdleObs
    /\ steps = 0

\* One call of execute_next; a panic leaves the process aborted.
OpsStep ==
    /\ obs.act = "init"
    /\ \E r \in {execute_next(cpu, mmu)} :
           /\ cpu' = r.cpu
           /\ mmu' = r.mmu
           /\ obs' = [obs EXCEPT !.act = IF r.panic = << >> THEN "step" ELSE "panic",
                                 !.opcode = r.opcode, !.cycles = r.cycles,
                                 !.panic = r.panic]
    /\ steps' = steps + 1
    /\ UNCHANGED <<ppu, cart>>

SpecOps == OpsInit /\ [][OpsStep]_vars

\* C11: after every CPU step, whatever the opcode and whatever bytes POP AF
\* finds on the stack, the low four bits of F are zero.
C11_FlagLowNibbleZero == cpu.f % 16 = 0

\* C11 witness: POP AF has loaded F from a stack byte whose low four bits
\* were all set, and kept only its high four.
C11_Witness ==
    /\ obs.act = "step"
    /\ obs.opcode = OP_POP_AF
    /\ MemAt(mmu, OPS_SP) = \hFF
    /\ cpu.f = \hF0
    /\ cpu.a = OPS_HIGH
    /\ cpu.sp = OPS_SP + 2

\* The renderings of a program counter a diagnostic could carry: four hex
\* digits of the address of the opcode or of the byte after it.
Hex4(x) == Hex2(x \div 256) \o Hex2(x % 256)
NamesPc(message, pc) ==
    \E i \in DOMAIN message : message[i] \in {Hex4(pc), Hex4((pc + 1) % 65536)}
NamesOpcode(message, opcode) ==
    \E i \in DOMAIN message : message[i] = Hex2(opcode)

\* C12: a step that fetches one of the eleven undefined opcodes ends in the
\* error state with a diagnostic naming the opcode and the PC, and a step
\* that fetches any other base opcode does not end in the error state.
C12_UndefinedOpcodesReportOpcodeAndPc ==
    [][obs.act = "init" =>
         IF read_byte(mmu, cpu.pc) \in UndefinedOpcodes
           THEN /\ obs'.act = "panic"
                /\ NamesOpcode(obs'.panic, read_byte(mmu, cpu.pc))
                /\ NamesPc(obs'.panic, cpu.pc)
           ELSE obs'.act = "step" /\ obs'.panic = << >>]_vars

\* The canonical DMG instruction timing, in T-cycles, of base opcode `opcode`
\* (with second byte nn when it is the CB prefix) executed with flags f.
ConditionHolds(f, k) ==
    CASE k = 0 -> f < 128
      [] k = 1 -> f >= 128
      [] k = 2 -> (f \div 16) % 2 = 0
      [] k = 3 -> (f \div 16) % 2 = 1
BranchTaken(f, opcode) == ConditionHolds(f, (opcode \div 8) % 4)
CanonicalPrefixed(nn) ==
    IF nn % 8 # 6 THEN 8
    ELSE IF nn \in 64..127 THEN 12
    ELSE 16
CanonicalLow(f, opcode) ==
    CASE opcode \in {\h00, \h10} -> 4
      [] opcode = \h18 -> 12
      [] opcode \in {\h20, \h28, \h30, \h38} ->
            IF BranchTaken(f, opcode) THEN 12 ELSE 8
      [] opcode = \h08 -> 20
      [] opcode \in {\h34, \h35, \h36} -> 12
      [] opcode % 16 = 1 -> 12
      [] opcode % 16 \in {2, 3, 9, 10, 11} -> 8
      [] opcode % 8 = 6 -> 8
      [] OTHER -> 4
CanonicalHigh(f, opcode) ==
    CASE opcode \in {\hC0, \hC8, \hD0, \hD8} ->
            IF BranchTaken(f, opcode) THEN 20 ELSE 8
      [] opcode \in {\hC2, \hCA, \hD2, \hDA} ->
            IF BranchTaken(f, opcode) THEN 16 ELSE 12
      [] opcode \in {\hC4, \hCC, \hD4, \hDC} ->
            IF BranchTaken(f, opcode) THEN 24 ELSE 12
      [] opcode \in {\hC1, \hD1, \hE1, \hF1} -> 12
      [] opcode \in {\hC5, \hD5, \hE5, \hF5} -> 16
      [] opcode % 8 = 6 -> 8
      [] opcode % 8 = 7 -> 16
      [] opcode \in {\hC3, \hC9, \hD9, \hE8, \hEA, \hFA} -> 16
      [] opcode = \hCD -> 24
      [] opcode \in {\hE0, \hF0, \hF8} -> 12
      [] opcode \in {\hE2, \hF2, \hF9} -> 8
      [] opcode \in {\hE9, \hF3, \hFB} -> 4
CanonicalCycles(f, opcode, nn) ==
    IF opcode = OP_PREFIX THEN CanonicalPrefixed(nn)
    ELSE IF opcode < 64 THEN CanonicalLow(f, opcode)
    ELSE IF opcode < 192
      THEN IF opcode = OP_HALT THEN 4
           ELSE IF opcode % 8 = 6 \/ (opcode < 128 /\ (opcode \div 8) % 8 = 6)
             THEN 8
           ELSE 4
    ELSE CanonicalHigh(f, opcode)

\* C13: the cycle count execute_next returns for an implemented opcode is
\* the canonical DMG timing of that opcode, CB-prefixed opcodes and taken
\* and not-taken conditional jumps, calls and returns included.
C13_CyclesMatchCanonicalTable ==
    [][obs'.act = "step" =>
         obs'.cycles = CanonicalCycles(cpu.f, read_byte(mmu, cpu.pc),
                                       read_byte(mmu, (cpu.pc + 1) % 65536))]_vars

----------------------------------------------------------------------------
(* ADD A,d8 followed by DAA on packed-BCD operands                         *)

MaxDaaSteps == 2
OP_ADD_A_D8 == \hC6
OP_DAA == \h27
BcdBytes == {16 * hi + lo : hi \in 0..9, lo \in 0..9}
DaaFlagStates == {\h00, \hF0}
FromBcd(x) == 10 * (x \div 16) + (x % 16)
ToBcd(d) == 16 * (d \div 10) + (d % 10)

\* A holds a after an earlier load; obs.value keeps a for the comparison.
DaaInit ==
    /\ \E a \in BcdBytes, f \in DaaFlagStates :
          /\ cpu = [CPU_new EXCEPT !.a = a, !.f = f]
          /\ obs = [IdleObs EXCEPT !.value = a]
    /\ \E n \in BcdBytes : mmu = MMU_new(ImageOf(<<OP_ADD_A_D8, n, OP_DAA>>, OP_RETI))
    /\ ppu = PPU_new(MMU_new(BlankImage))
    /\ cart = 0
    /\ steps = 0

DaaStep ==
    /\ steps < MaxDaaSteps
    /\ \E r \in {execute_next(cpu, mmu)} :
           /\ cpu' = r.cpu
           /\ mmu' = r.mmu
           /\ obs' = [obs EXCEPT !.act = "step", !.opcode = r.opcode,
                                 !.cycles = r.cycles]
    /\ steps' = steps + 1
    /\ UNCHANGED <<ppu, cart>>

SpecDaa == DaaInit /\ [][DaaStep]_vars

\* The decimal sum of the two operands of the ADD A,d8 at the entry point.
DecimalSum == FromBcd(obs.value) + FromBcd(read_byte(mmu, ENTRY + 1))

\* C14: for packed-BCD a and n, ADD A,n then DAA leaves in A the packed BCD
\* of (a + n) mod 100 in decimal, C set iff the decimal sum is 100 or more,
\* H clear, and Z set iff A is 0.
C14_DaaAfterAddIsBcdSum ==
    obs.act = "step" /\ obs.opcode = OP_DAA /\ steps = 2 =>
        /\ cpu.a = ToBcd(DecimalSum % 100)
        /\ get_c_flag(cpu) = (DecimalSum >= 100)
        /\ ~get_h_flag(cpu)
        /\ get_z_flag(cpu) = (cpu.a = 0)

\* C14 witness: 0x15 + 0x27 was 0x3C after the ADD and is 0x42 after DAA,
\* with Z, H and C clear.
C14_Witness ==
    /\ obs.act = "step" /\ obs.opcode = OP_DAA /\ steps = 2
    /\ obs.value = \h15
    /\ read_byte(mmu, ENTRY + 1) = \h27
    /\ cpu.a = \h42
    /\ ~get_z_flag(cpu) /\ ~get_h_flag(cpu) /\ ~get_c_flag(cpu)

\* C14 second case: 0x99 + 0x99 = 198 leaves 0x98 with C set, and
\* 0x50 + 0x50 leaves 0x00 with Z and C set.
C14_CarryCase ==
    /\ obs.act = "step" /\ obs.opcode = OP_DAA /\ steps = 2
    /\ obs.value = \h50
    /\ read_byte(mmu, ENTRY + 1) = \h50
    /\ cpu.a = \h00
    /\ get_z_flag(cpu) /\ get_c_flag(cpu)

----------------------------------------------------------------------------
(* The 8-bit additions, subtractions and compare on all operand pairs      *)

OP_ADD_A_B == \h80
OP_ADC_A_B == \h88
OP_SUB_A_B == \h90
OP_SBC_A_B == \h98
OP_CP_B == \hB8
AluOps == {OP_ADD_A_B, OP_ADC_A_B, OP_SUB_A_B, OP_SBC_A_B, OP_CP_B}
CarryFlagStates == {\h00, \h10}
OVERFLOW_MESSAGE == <<"attempt to add with overflow">>

\* The third argument the arm for opcode passes to the carry helpers.
helper_carry(c, opcode) ==
    IF opcode \in {OP_ADC_A_B, OP_SBC_A_B} THEN carry_in(c) ELSE 0

AluInit ==
    /\ \E a \in 0..255, b \in 0..255, f \in CarryFlagStates :
          cpu = [CPU_new EXCEPT !.a = a, !.b = b, !.f = f]
    /\ \E opcode \in AluOps : mmu = MMU_new(ImageOf(<<opcode>>, OP_RETI))
    /\ ppu = PPU_new(MMU_new(BlankImage))
    /\ cart = 0
    /\ obs = IdleObs
    /\ steps = 0

\* One ALU instruction. A sum that does not fit u8 inside a carry helper
\* panics in a build with overflow checks and wraps in one without.
AluStep ==
    /\ obs.act = "init"
    /\ \E r \in {execute_next(cpu, mmu)}, overflow_checks \in BOOLEAN :
           /\ cpu' = r.cpu
           /\ mmu' = r.mmu
           /\ obs' = IF overflow_checks
                        /\ u8_checks_overflow(cpu.a, cpu.b, helper_carry(cpu, r.opcode))
                       THEN [obs EXCEPT !.act = "panic", !.opcode = r.opcode,
                                        !.panic = OVERFLOW_MESSAGE]
                       ELSE [obs EXCEPT !.act = "step", !.opcode = r.opcode,
                                        !.cycles = r.cycles]
    /\ steps' = steps + 1
    /\ UNCHANGED <<ppu, cart>>

SpecAlu == AluInit /\ [][AluStep]_vars

\* The DMG reference for a + b + c and a - b - c: <<result, Z, N, H, C>>.
ReferenceAdd(a, b, c) ==
    <<(a + b + c) % 256, (a + b + c) % 256 = 0, FALSE,
      (a % 16) + (b % 16) + c > 15, a + b + c > 255>>
ReferenceSub(a, b, c) ==
    <<(a - b - c) % 256, (a - b - c) % 256 = 0, TRUE,
      (a % 16) < (b % 16) + c, a < b + c>>
Reference(opcode, a, b, c) ==
    CASE opcode = OP_ADD_A_B -> ReferenceAdd(a, b, 0)
      [] opcode = OP_ADC_A_B -> ReferenceAdd(a, b, c)
      [] opcode = OP_SUB_A_B -> ReferenceSub(a, b, 0)
      [] opcode = OP_SBC_A_B -> ReferenceSub(a, b, c)
      [] opcode = OP_CP_B -> <<a>> \o Tail(ReferenceSub(a, b, 0))
FlagsOf(c) == <<get_z_flag(c), get_n_flag(c), get_h_flag(c), get_c_flag(c)>>

\* C15: for every a, b and carry-in, ADD, ADC, SUB, SBC and CP leave the
\* flags and the result of the DMG reference (CP leaves A), and no sum
\* inside the carry helpers overflows.
C15_AluFlagsMatchReference ==
    [][obs.act = "init" =>
         /\ obs'.act = "step"
         /\ <<cpu'.a>> \o FlagsOf(cpu') =
               Reference(obs'.opcode, cpu.a, cpu.b, carry_in(cpu))
         /\ cpu'.f % 16 = 0]_vars

\* C15 witness: SBC A,B with a = b = 0x00 and carry-in 1 borrowed through
\* both nibbles: A = 0xFF with N, H and C set and Z clear.
C15_Witness ==
    /\ obs.act = "step"
    /\ obs.opcode = OP_SBC_A_B
    /\ cpu.b = \h00
    /\ cpu.a = \hFF
    /\ FlagsOf(cpu) = <<FALSE, TRUE, TRUE, TRUE>>

----------------------------------------------------------------------------
(* One instruction at the ends of the 16-bit range                         *)

OP_LD_A16_SP == \h08
OP_JR == \h18
OP_ADD_SP_R8 == \hE8
OP_LD_HL_SP_R8 == \hF8
TOP == \hFFFF
WrapEntries == {ENTRY, TOP}
WrapStackTops == {\h0000, \h0001, \hFFFE, \hFFFF}
WrapPairs == {\h0000, \hFFFF}
WrapOperands == {<<\hFF, \hFF>>, <<\h05, \hC0>>, <<\hFE, \hFF>>}

\* The byte of `program` stored at address a when it starts at entry.
ProgramByte(program, entry, a) == program[((a - entry) % 65536) + 1]
ProgramAddresses(entry) == {(entry + i) % 65536 : i \in 0..2}

\* The cartridge holds the bytes that fall in ROM; the byte that falls on
\* FFFF was stored there by the program.
WrapMmu(program, entry) ==
    LET rom == MMU_new([a \in ProgramAddresses(entry) \cap 0..\h7FFF |->
                           ProgramByte(program, entry, a)])
    IN  IF TOP \in ProgramAddresses(entry)
          THEN SetMem(rom, TOP, ProgramByte(program, entry, TOP))
          ELSE rom

WrapCpu(entry, sp, pair) ==
    [CPU_new EXCEPT !.pc = entry, !.sp = sp,
                    !.b = pair \div 256, !.c = pair % 256,
                    !.d = pair \div 256, !.e = pair % 256,
                    !.h = pair \div 256, !.l = pair % 256]

WrapInit ==
    /\ \E entry \in WrapEntries :
          /\ \E sp \in WrapStackTops, pair \in WrapPairs :
                cpu = WrapCpu(entry, sp, pair)
          /\ \E opcode \in 0..255, operands \in WrapOperands :
                mmu = WrapMmu(<<opcode>> \o operands, entry)
    /\ ppu = PPU_new(MMU_new(BlankImage))
    /\ cart = 0
    /\ obs = IdleObs
    /\ steps = 0

\* Whether this step reaches the arm of LD (a16),SP with a16 + 1 beyond u16.
second_store_overflows(r) ==
    /\ r.cycles = 0
    /\ ~r.cpu.low_power_mode
    /\ read_byte(r.mmu, r.cpu.pc) = OP_LD_A16_SP
    /\ get_word(get_byte(r.cpu, r.mmu).cpu, r.mmu).word + 1 > TOP

\* One instruction. The unchecked address + 1 of LD (a16),SP panics in a
\* build with overflow checks, after the first store, and wraps in a build
\* without; the wrapped second store goes to ROM and changes nothing.
WrapStep ==
    /\ obs.act = "init"
    /\ \E r \in {execute_next(cpu, mmu)}, overflow_checks \in BOOLEAN :
           /\ cpu' = r.cpu
           /\ mmu' = r.mmu
           /\ obs' = IF r.panic # << >>
                       THEN [obs EXCEPT !.act = "panic", !.opcode = r.opcode,
                                        !.panic = r.panic]
                     ELSE IF overflow_checks
                             /\ second_store_overflows(execute_interrupts(cpu, mmu))
                       THEN [obs EXCEPT !.act = "panic", !.opcode = r.opcode,
                                        !.panic = OVERFLOW_MESSAGE]
                     ELSE [obs EXCEPT !.act = "step", !.opcode = r.opcode,
                                      !.cycles = r.cycles]
    /\ steps' = steps + 1
    /\ UNCHANGED <<ppu, cart>>

SpecWrap == WrapInit /\ [][WrapStep]_vars

\* The length in bytes of the instruction with base opcode `opcode`, and the
\* opcodes that load PC instead of stepping over their own bytes.
InstructionLength(opcode) ==
    IF opcode \in {\h01, \h11, \h21, \h31, \h08, \hEA, \hFA, \hC3, \hCD,
                   \hC2, \hCA, \hD2, \hDA, \hC4, \hCC, \hD4, \hDC} THEN 3
    ELSE IF \/ opcode \in {\h10, \h18, \h20, \h28, \h30, \h38, \hCB,
                          \hE0, \hF0, \hE8, \hF8}
            \/ (opcode % 8 = 6 /\ (opcode < 64 \/ opcode >= 192)) THEN 2
    ELSE 1
LoadsPc(opcode) ==
    \/ opcode \in {\hC3, \hCD, \hC9, \hD9, \hE9}
    \/ opcode \in {\hC0, \hC8, \hD0, \hD8, \hC2, \hCA, \hD2, \hDA,
                   \hC4, \hCC, \hD4, \hDC}
    \/ (opcode >= 192 /\ opcode % 8 = 7)
Wrap16(x) == x % 65536
Operand(m, c) == read_byte(m, Wrap16(c.pc + 1))

\* The 16-bit results of the instruction at c.pc, each taken modulo 2^16,
\* against the state d it leaves.
WrapsPc(c, m, d, opcode) ==
    IF opcode = OP_JR \/ (opcode \in {\h20, \h28, \h30, \h38}
                          /\ ConditionHolds(c.f, (opcode \div 8) % 4))
      THEN d.pc = Wrap16(c.pc + 2 + as_i8(Operand(m, c)))
    ELSE LoadsPc(opcode) \/ d.pc = Wrap16(c.pc + InstructionLength(opcode))
WrapsSp(c, m, d, opcode) ==
    CASE opcode \in {\hC5, \hD5, \hE5, \hF5} -> d.sp = Wrap16(c.sp - 2)
      [] opcode \in {\hC1, \hD1, \hE1, \hF1} -> d.sp = Wrap16(c.sp + 2)
      [] opcode = \h33 -> d.sp = Wrap16(c.sp + 1)
      [] opcode = \h3B -> d.sp = Wrap16(c.sp - 1)
      [] opcode = OP_ADD_SP_R8 -> d.sp = Wrap16(c.sp + as_i8(Operand(m, c)))
      [] OTHER -> TRUE
WrapsPairs(c, m, d, opcode) ==
    CASE opcode \in {\h03, \h13, \h23} ->
            reg16(d, opcode \div 16) = Wrap16(reg16(c, opcode \div 16) + 1)
      [] opcode \in {\h0B, \h1B, \h2B} ->
            reg16(d, opcode \div 16) = Wrap16(reg16(c, opcode \div 16) - 1)
      [] opcode \in {\h22, \h2A} -> hl(d) = Wrap16(hl(c) + 1)
      [] opcode \in {\h32, \h3A} -> hl(d) = Wrap16(hl(c) - 1)
      [] opcode \in {\h09, \h19, \h29, \h39} ->
            hl(d) = Wrap16(hl(c) + reg16(c, opcode \div 16))
      [] opcode = OP_LD_HL_SP_R8 -> hl(d) = Wrap16(c.sp + as_i8(Operand(m, c)))
      [] OTHER -> TRUE
WrapsStoreAddress(c, m, n, opcode) ==
    opcode = OP_LD_A16_SP /\ Operand(m, c) = \hFF
      /\ read_byte(m, Wrap16(c.pc + 2)) = \hFF
      => MemAt(n, TOP) = c.sp % 256

\* C16: every 16-bit computation of an implemented instruction wraps modulo
\* 2^16 and raises no error: the PC increments, relative jumps, SP on push
\* and pop, INC/DEC rr, ADD HL,rr, ADD SP,r8, LD HL,SP+r8, HL+ and HL-, and
\* the second store address of LD (a16),SP when a16 is 0xFFFF.
C16_SixteenBitArithmeticWraps ==
    [][obs.act = "init" /\ read_byte(mmu, cpu.pc) \notin UndefinedOpcodes =>
         /\ obs'.act = "step"
         /\ WrapsPc(cpu, mmu, cpu', read_byte(mmu, cpu.pc))
         /\ WrapsSp(cpu, mmu, cpu', read_byte(mmu, cpu.pc))
         /\ WrapsPairs(cpu, mmu, cpu', read_byte(mmu, cpu.pc))
         /\ WrapsStoreAddress(cpu, mmu, mmu', read_byte(mmu, cpu.pc))]_vars

\* ---------------------------------------------------------------------
\* Object selection and the pixel FIFOs: the PPU ticked over the first
\* scanlines of a frame with OAM filled by the program.
\* ---------------------------------------------------------------------

MaxScanTicks == 1000

\* The scan visits FE00, FE04, ... below FEA0.
OAM_ENTRIES == (\hFEA0 - OAM_BASE) \div 4

\* The address of OAM entry i (0..39).
OamEntry(i) == OAM_BASE + 4 * i

\* Y and X of entry i in the OAM contents the program stores. Crowd: all 40
\* objects on lines 0..7 with X in no order. Mixed: Y 16, 8, 17, 0 and 200
\* in turn, X descending from the right edge.
CrowdY(i) == 16
CrowdX(i) == 8 + ((37 * i) % 160)
MixedY(i) == <<16, 8, 17, 0, 200>>[(i % 5) + 1]
MixedX(i) == 168 - 4 * i

CrowdWrites ==
    [k \in 1..(2 * OAM_ENTRIES) |->
        IF k % 2 = 1 THEN <<OamEntry((k - 1) \div 2), CrowdY((k - 1) \div 2)>>
                     ELSE <<OamEntry((k - 1) \div 2) + 1, CrowdX((k - 1) \div 2)>>]

MixedWrites ==
    [k \in 1..(2 * OAM_ENTRIES) |->
        IF k % 2 = 1 THEN <<OamEntry((k - 1) \div 2), MixedY((k - 1) \div 2)>>
                     ELSE <<OamEntry((k - 1) \div 2) + 1, MixedX((k - 1) \div 2)>>]

\* Register stores that follow the OAM stores: objects on, 8 or 16 lines
\* high, with the background scrolled by 5 or the window at the left edge.
ScanRegisters ==
    << << <<LCDC, \h93>> >>,
       << <<LCDC, \h97>>, <<SCX, \h05>> >>,
       << <<LCDC, \hB7>>, <<WX, \h07>>, <<WY, \h00>> >> >>

\* The store sequences a program may run before the first tick.
ScanPrograms ==
    [k \in 1..6 |->
        (IF k <= 3 THEN CrowdWrites ELSE MixedWrites) \o ScanRegisters[((k - 1) % 3) + 1]]

ScanInit ==
    /\ mmu = MMU_new(BlankImage)
    /\ cpu = CPU_new
    /\ ppu = PPU_new(MMU_new(BlankImage))
    /\ cart = 0
    /\ obs = IdleObs
    /\ steps = 0

\* One store of the program: obs.opcode is the program chosen at the first
\* store, obs.address the number of its stores done.
ScanStore ==
    /\ obs.act \in {"init", "store"}
    /\ \E k \in DOMAIN ScanPrograms :
          /\ obs.act = "store" => k = obs.opcode
          /\ obs.address < Len(ScanPrograms[k])
          /\ \E w \in {ScanPrograms[k][obs.address + 1]} :
                mmu' = write_byte(mmu, w[1], w[2])
          /\ obs' = [obs EXCEPT !.act = "store", !.opcode = k, !.address = @ + 1]
    /\ UNCHANGED <<cpu, ppu, cart, steps>>

ProgramDone ==
    \/ obs.act = "tick"
    \/ obs.act = "store" /\ obs.address = Len(ScanPrograms[obs.opcode])

\* One ppu.tick; obs.count is the length of the background FIFO and
\* obs.value that of the sprite FIFO at the moment render popped a pixel in
\* this tick, both -1 when it popped none.
ScanTick ==
    /\ ProgramDone
    /\ steps < MaxScanTicks
    /\ ~ppu.unreachable
    /\ \E r \in {tick(ppu, mmu)} :
           /\ ppu' = r.ppu
           /\ mmu' = r.mmu
    /\ \E f \in {fifos_at_pop(update_mode(clear_frame_ready(ppu), mmu).ppu, mmu)} :
           obs' = [obs EXCEPT !.act = "tick", !.count = f[1], !.value = f[2]]
    /\ steps' = steps + 1
    /\ UNCHANGED <<cpu, cart>>

ScanNext == ScanStore \/ ScanTick

SpecScan == ScanInit /\ [][ScanNext]_vars

\* This tick runs oamscan: update_mode leaves the mode OAMSCAN and process
\* finds no cycle to waste.
RunsOamScan(p, m) ==
    LET u == update_mode(clear_frame_ready(p), m).ppu
    IN  ~u.unreachable /\ u.cycles_waste = 0 /\ u.mode = OAMSCAN

\* The OAM entries on line ly, in OAM order.
OnLine(ly, m) ==
    SelectSeq([i \in 1..OAM_ENTRIES |-> OamEntry(i - 1)],
              LAMBDA a :
                  LET obj_y == read_byte(m, a)
                      obj_size == IF is_bit_set(read_byte(m, LCDC), 2) THEN 16 ELSE 8
                  IN  obj_y <= ly + 16 /\ ly + 16 < obj_y + obj_size)

FirstTen(s) == SubSeq(s, 1, Min(10, Len(s)))

\* C22: the tick that scans OAM leaves in sprite_buffer the first
\* min(10, k) of the k OAM entries on line LY, in OAM order, whatever their
\* X; the buffer holds them through the line's pixel transfer and never
\* holds more than 10.
C22_OamScanTakesFirstTenInOamOrder ==
    [][obs'.act = "tick" =>
        /\ Len(ppu'.sprite_buffer) <= 10
        /\ RunsOamScan(ppu, mmu) =>
              ppu'.sprite_buffer = FirstTen(OnLine(ppu.ly, mmu))
        /\ ppu'.mode = RENDER =>
              ppu'.sprite_buffer = FirstTen(OnLine(ppu'.ly, mmu'))
      ]_vars

\* More than 10 entries are on the line, the buffer holds 10 and their X
\* are not ascending.
C22_Witness ==
    /\ ppu.mode = RENDER
    /\ Len(OnLine(ppu.ly, mmu)) > 10
    /\ Len(ppu.sprite_buffer) = 10
    /\ read_byte(mmu, ppu.sprite_buffer[5] + 1) > read_byte(mmu, ppu.sprite_buffer[6] + 1)

\* Fewer than 10 entries are on the line and the buffer holds them all.
C22_FewerThanTen ==
    /\ ppu.mode = RENDER
    /\ Len(ppu.sprite_buffer) \in 1..9
    /\ Len(ppu.sprite_buffer) = Len(OnLine(ppu.ly, mmu))

\* C23: the background FIFO never holds more than 16 pixels, the sprite
\* FIFO never more than 8 entries and the sprite buffer never more than 10,
\* and render pops only when both FIFOs hold at least one element.
C23_FifoBounds ==
    /\ Len(ppu.background_fifo) <= 16
    /\ Len(ppu.sprite_fifo) <= 8
    /\ Len(ppu.sprite_buffer) <= 10
    /\ obs.act = "tick" =>
          /\ obs.count \in {-1} \cup 1..16
          /\ obs.value \in {-1} \cup 1..8

\* render has just popped from a sprite FIFO of 8 entries, with 10 objects
\* in the buffer.
C23_Witness ==
    /\ obs.act = "tick"
    /\ obs.value = 8
    /\ obs.count >= 1
    /\ Len(ppu.sprite_fifo) = 7
    /\ Len(ppu.sprite_buffer) = 10

\* The call of fill_sprite_fifo made by the tick from (p, m), if any: runs
\* tells whether render reaches it, ppu is the PPU at the call.
sprite_fetch(p, m) ==
    LET u == update_mode(clear_frame_ready(p), m).ppu
        q == refill_background(start_window(u, m), m)
    IN  [runs |-> ~u.unreachable /\ u.cycles_waste = 0 /\ u.mode = RENDER
                    /\ q.sprite_fifo = << >>,
         ppu  |-> q]

\* The sprite fetch of this tick runs and finds no object over LX.
FetchMisses ==
    /\ obs'.act = "tick"
    /\ sprite_fetch(ppu, mmu).runs
    /\ \A i \in DOMAIN ppu.sprite_buffer :
          LET obj_x == read_byte(mmu, ppu.sprite_buffer[i] + 1)
          IN  ~(obj_x <= ppu.lx + 8 /\ ppu.lx < obj_x)

\* C31 as stated: a sprite fetch that finds no object over LX enqueues 8
\* transparent entries (colour 0, palette OBP0, priority set) and charges no
\* cycles_waste.
C31_AsStated ==
    [][FetchMisses =>
        LET q == sprite_fetch(ppu, mmu).ppu
            s == fill_sprite_fifo(q, mmu)
        IN  /\ s.sprite_fifo =
                 [i \in 1..8 |-> [color |-> 0, palette_address |-> OBP0,
                                  bg_obj_priority_flag |-> TRUE]]
            /\ s.cycles_waste = q.cycles_waste
      ]_vars

\* C31 amended: such a fetch enqueues exactly one transparent entry (colour
\* 0, palette OBP0, priority set) and charges no cycles_waste; when nothing
\* else stalls the tick, that entry is popped with the pixel at once, so the
\* next pixel's fetch looks for an object again.
C31_FetchMissPushesOneTransparent ==
    [][FetchMisses =>
        LET q == sprite_fetch(ppu, mmu).ppu
            s == fill_sprite_fifo(q, mmu)
        IN  /\ s.sprite_fifo =
                 << [color |-> 0, palette_address |-> OBP0,
                     bg_obj_priority_flag |-> TRUE] >>
            /\ s.cycles_waste = q.cycles_waste
            /\ s.sprite_buffer = q.sprite_buffer
            /\ q.cycles_waste = 0 =>
                  /\ ppu'.sprite_fifo = << >>
                  /\ ppu'.lx = ppu.lx + 1
            /\ q.cycles_waste > 0 =>
                  /\ Len(ppu'.sprite_fifo) = 1
                  /\ ppu'.lx = ppu.lx
      ]_vars

\* With 10 objects in the buffer and none of them over the pixel just
\* output, the fetch pushed one entry and render popped it.
C31_Witness ==
    /\ obs.act = "tick"
    /\ obs.value = 1
    /\ ppu.mode = RENDER
    /\ ppu.lx > 8
    /\ ppu.sprite_fifo = << >>
    /\ Len(ppu.sprite_buffer) = 10
    /\ covering([ppu EXCEPT !.lx = @ - 1], mmu) = << >>

\* ---------------------------------------------------------------------
\* Pixel mixing: the PPU ticked over scanline 0 and into scanline 1 with
\* tile data, objects and palettes stored by the program.
\* ---------------------------------------------------------------------

MaxMixTicks == 600

\* Tile 0 (the background everywhere) and tile 1 (the objects), rows 0 and
\* 1: background pixels 0 0 1 1 2 2 3 3, object pixels 0 1 2 3 0 1 2 3 on
\* line 0; background 0 0 2 2 1 1 3 3, object pixels all 1 on line 1.
MixTiles ==
    << <<\h8000, \h33>>, <<\h8001, \h0F>>, <<\h8002, \h0F>>, <<\h8003, \h33>>,
       <<\h8010, \h55>>, <<\h8011, \h33>>, <<\h8012, \hFF>>, <<\h8013, \h00>> >>

\* Four objects on lines 0..7: over the left edge; with priority and OBP1;
\* with priority and X flip; with OBP1.
MixObjects ==
    << <<OAM_BASE,      16>>, <<OAM_BASE + 1,   8>>, <<OAM_BASE + 2,  1>>, <<OAM_BASE + 3,  \h00>>,
       <<OAM_BASE + 4,  16>>, <<OAM_BASE + 5,  17>>, <<OAM_BASE + 6,  1>>, <<OAM_BASE + 7,  \h90>>,
       <<OAM_BASE + 8,  16>>, <<OAM_BASE + 9,  27>>, <<OAM_BASE + 10, 1>>, <<OAM_BASE + 11, \hA0>>,
       <<OAM_BASE + 12, 16>>, <<OAM_BASE + 13, 38>>, <<OAM_BASE + 14, 1>>, <<OAM_BASE + 15, \h10>> >>

\* Palettes and LCDC: objects on; objects off; objects on with the
\* background scrolled by 3 and other palettes.
MixRegisters ==
    << << <<BGP, \hE4>>, <<OBP0, \h1B>>, <<OBP1, \h4E>>, <<LCDC, \h93>> >>,
       << <<BGP, \hE4>>, <<OBP0, \h1B>>, <<OBP1, \h4E>>, <<LCDC, \h91>> >>,
       << <<BGP, \h27>>, <<OBP0, \hE4>>, <<OBP1, \hD2>>, <<SCX, \h03>>, <<LCDC, \h93>> >> >>

MixPrograms == [k \in 1..3 |-> MixTiles \o MixObjects \o MixRegisters[k]]

\* A store the program may make once between two ticks of the first line's
\* pixel transfer: objects switched off, or the background palette changed.
MixPokes == { <<LCDC, \h91>>, <<BGP, \h1B>> }
MixPokeTicks == 100..112

MixInit ==
    /\ mmu = MMU_new(BlankImage)
    /\ cpu = CPU_new
    /\ ppu = PPU_new(MMU_new(BlankImage))
    /\ cart = 0
    /\ obs = IdleObs
    /\ steps = 0

\* One store of the program: obs.opcode is the program chosen at the first
\* store, obs.cycles the number of its stores done.
MixStore ==
    /\ obs.act \in {"init", "store"}
    /\ \E k \in DOMAIN MixPrograms :
          /\ obs.act = "store" => k = obs.opcode
          /\ obs.cycles < Len(MixPrograms[k])
          /\ \E w \in {MixPrograms[k][obs.cycles + 1]} :
                mmu' = write_byte(mmu, w[1], w[2])
          /\ obs' = [obs EXCEPT !.act = "store", !.opcode = k, !.cycles = @ + 1]
    /\ UNCHANGED <<cpu, ppu, cart, steps>>

\* obs.was_halted is set once the poke has happened.
MixPoke ==
    /\ obs.act = "tick"
    /\ steps \in MixPokeTicks
    /\ ~obs.was_halted
    /\ \E w \in MixPokes :
          mmu' = write_byte(mmu, w[1], w[2])
    /\ obs' = [obs EXCEPT !.act = "poke", !.was_halted = TRUE]
    /\ UNCHANGED <<cpu, ppu, cart, steps>>

\* One ppu.tick; obs keeps the pair render popped in it: count the
\* background pixel (-1 when nothing was popped), value the sprite entry's
\* colour, address its palette register, and_result its priority flag.
MixTick ==
    /\ \/ obs.act \in {"tick", "poke"}
       \/ obs.act = "store" /\ obs.cycles = Len(MixPrograms[obs.opcode])
    /\ steps < MaxMixTicks
    /\ ~ppu.unreachable
    /\ \E r \in {tick(ppu, mmu)} :
           /\ ppu' = r.ppu
           /\ mmu' = r.mmu
    /\ \E pair \in {popped_pair(update_mode(clear_frame_ready(ppu), mmu).ppu, mmu)} :
           obs' = IF pair = NoPixel
                    THEN [obs EXCEPT !.act = "tick", !.count = -1]
                    ELSE [obs EXCEPT !.act = "tick",
                                     !.count = pair.bg_pixel,
                                     !.value = pair.obj_data.color,
                                     !.address = pair.obj_data.palette_address,
                                     !.and_result = pair.obj_data.bg_obj_priority_flag]
    /\ steps' = steps + 1
    /\ UNCHANGED <<cpu, cart>>

MixNext == MixStore \/ MixPoke \/ MixTick

SpecMix == MixInit /\ [][MixNext]_vars

\* palette(P, i) = (P >> 2i) & 3 as an index into the four colours.
PaletteColour(P, i) ==
    <<White, LightGray, DarkGray, Black>>[((P \div (4 ^ i)) % 4) + 1]

C32_BehindBackground ==
    /\ obs.act = "tick"
    /\ obs.count > 0 /\ obs.value > 0 /\ obs.and_result
    /\ ppu.frame_buffer.color = PaletteColour(read_byte(mmu, BGP), obs.count)
    /\ ppu.frame_buffer.color # PaletteColour(read_byte(mmu, obs.address), obs.value)

\* ---------------------------------------------------------------------
\* One frame from cold boot with VRAM and OAM all zero.
\* ---------------------------------------------------------------------

MaxFrameTicks == 71000

\* Register stores the program makes before the first tick: none; another
\* background palette; the window on over the whole screen with the
\* background scrolled; objects on and 16 lines high.
FrameSetups ==
    { << >>,
      << <<BGP, \h1B>> >>,
      << <<BGP, \hE6>>, <<LCDC, \hB1>>, <<WX, \h07>>, <<WY, \h00>>, <<SCX, \h05>> >>,
      << <<BGP, \h1B>>, <<LCDC, \h97>>, <<SCX, \h03>>, <<SCY, \h44>> >> }

FrameInit ==
    /\ mmu = MMU_new(BlankImage)
    /\ cpu = CPU_new
    /\ ppu = PPU_new(MMU_new(BlankImage))
    /\ cart = 0
    /\ obs = IdleObs
    /\ steps = 0

FrameSetup ==
    /\ obs.act = "init"
    /\ \E writes \in FrameSetups :
          mmu' = store_all(mmu, writes)
    /\ obs' = [IdleObs EXCEPT !.act = "setup"]
    /\ UNCHANGED <<cpu, ppu, cart, steps>>

\* One ppu.tick; obs.count is the number of frame buffer stores made since
\* the last tick that left frame_ready set (since boot before the first).
FrameTick ==
    /\ obs.act # "init"
    /\ steps < MaxFrameTicks
    /\ ~ppu.unreachable
    /\ \E r \in {tick(ppu, mmu)} :
           /\ ppu' = r.ppu
           /\ mmu' = r.mmu
           /\ obs' = [obs EXCEPT
                        !.act = "tick",
                        !.count =
                            IF r.ppu.frame_ready THEN 0
                            ELSE IF popped_pair(update_mode(clear_frame_ready(ppu), mmu).ppu,
                                                mmu) # NoPixel
                              THEN @ + 1 ELSE @]
    /\ steps' = steps + 1
    /\ UNCHANGED <<cpu, cart>>

FrameNext == FrameSetup \/ FrameTick

SpecFrame == FrameInit /\ [][FrameNext]_vars

\* This tick's render reaches the store into the frame buffer.
StoresPixel ==
    popped_pair(update_mode(clear_frame_ready(ppu), mmu).ppu, mmu) # NoPixel

\* C33: a tick stores at most one pixel, at index LY * 160 + LX with
\* LY < 144 and LX < 160, and advances LX by one; LX never exceeds 160 and
\* is 160 when a visible line ends, so each line stores x = 0..159 once each
\* in ascending order; counted from the start of the frame the n-th store
\* goes to index n - 1, and the frame is complete (frame_ready) after 23,040
\* stores; with VRAM and OAM all zero every store is palette(BGP, 0).
C33_FramebufferWrittenOncePerPixel ==
    [][obs'.act = "tick" =>
        /\ ppu'.lx <= WIDTH
        /\ StoresPixel =>
              /\ ppu.ly < HEIGHT /\ ppu.lx < WIDTH
              /\ ppu'.lx = ppu.lx + 1
              /\ ppu'.frame_buffer.index = ppu.ly * 160 + ppu.lx
              /\ ppu'.frame_buffer.index \in 0..23039
              /\ ppu'.frame_buffer.index = obs.count
              /\ ppu'.frame_buffer.color = PaletteColour(read_byte(mmu, BGP), 0)
        /\ ~StoresPixel =>
              /\ ppu'.frame_buffer = ppu.frame_buffer
              /\ ppu'.lx = IF ppu'.cycles_spent = 0 THEN 0 ELSE ppu.lx
        /\ (ppu'.cycles_spent = 0 /\ ppu.ly < HEIGHT) => ppu.lx = WIDTH
        /\ ppu'.frame_ready =>
              /\ obs.count = WIDTH * HEIGHT
              /\ ppu'.frame_buffer.index = WIDTH * HEIGHT - 1
      ]_vars

\* The first frame is complete: 23,040 pixels stored, the last at index
\* 23,039 in the colour a program-set BGP gives to pixel 0.
C33_Witness ==
    /\ obs.act = "tick"
    /\ ppu.frame_ready
    /\ steps = VBLANK_TICK
    /\ ppu.frame_buffer = [index |-> 23039, color |-> Black]
    /\ read_byte(mmu, BGP) = \h1B
    /\ is_bit_set(read_byte(mmu, LCDC), 1)

\* ---------------------------------------------------------------------
\* The length of the pixel transfer: scanlines on which every one of the 10
\* buffered objects stalls the pipeline, with the background scrolled or
\* the window starting in mid-line.
\* ---------------------------------------------------------------------

MaxStallTicks == 1000

\* Ten objects on lines 0..7, with X from `first` in steps of `gap`.
StallObjects(first, gap) ==
    [k \in 1..20 |->
        IF k % 2 = 1 THEN <<OamEntry((k - 1) \div 2), 16>>
                     ELSE <<OamEntry((k - 1) \div 2) + 1, first + gap * ((k - 1) \div 2)>>]

\* Each object fetched when one background pixel is left (X = 15, 23, ...,
\* or 16, 24, ... with SCX = 7); the same with the window starting at
\* LX = 93 or at the left edge; ten objects one pixel apart at the left
\* edge; ten objects at one X, 16 lines high.
StallPrograms ==
    << StallObjects(15, 8) \o << <<LCDC, \h93>> >>,
       StallObjects(16, 8) \o << <<SCX, \h07>>, <<LCDC, \h93>> >>,
       StallObjects(16, 8) \o << <<SCX, \h07>>, <<WY, \h00>>, <<WX, \h64>>, <<LCDC, \hB3>> >>,
       StallObjects(15, 8) \o << <<SCX, \h07>>, <<WY, \h00>>, <<WX, \h00>>, <<LCDC, \hB3>> >>,
       StallObjects(1, 1)  \o << <<SCX, \h07>>, <<WY, \h01>>, <<WX, \h0E>>, <<LCDC, \hB3>> >>,
       StallObjects(80, 0) \o << <<SCX, \h05>>, <<LCDC, \h97>> >> >>

StallInit ==
    /\ mmu = MMU_new(BlankImage)
    /\ cpu = CPU_new
    /\ ppu = PPU_new(MMU_new(BlankImage))
    /\ cart = 0
    /\ obs = IdleObs
    /\ steps = 0

\* One store of the program: obs.opcode is the program chosen at the first
\* store, obs.address the number of its stores done.
StallStore ==
    /\ obs.act \in {"init", "store"}
    /\ \E k \in DOMAIN StallPrograms :
          /\ obs.act = "store" => k = obs.opcode
          /\ obs.address < Len(StallPrograms[k])
          /\ \E w \in {StallPrograms[k][obs.address + 1]} :
                mmu' = write_byte(mmu, w[1], w[2])
          /\ obs' = [obs EXCEPT !.act = "store", !.opcode = k, !.address = @ + 1]
    /\ UNCHANGED <<cpu, ppu, cart, steps>>

\* One ppu.tick; obs.count is the number of sprite fetches of this scanline
\* that found an object, obs.value the cycles_spent of the tick that ended
\* the scanline's pixel transfer (0 until then).
StallTick ==
    /\ \/ obs.act = "tick"
       \/ obs.act = "store" /\ obs.address = Len(StallPrograms[obs.opcode])
    /\ steps < MaxStallTicks
    /\ ~ppu.unreachable
    /\ \E r \in {tick(ppu, mmu)} :
           /\ ppu' = r.ppu
           /\ mmu' = r.mmu
           /\ obs' = [obs EXCEPT
                        !.act = "tick",
                        !.count =
                            IF r.ppu.cycles_spent = 0 THEN 0
                            ELSE IF sprite_fetch(ppu, mmu).runs
                                    /\ find_object_address(sprite_fetch(ppu, mmu).ppu, mmu)
                                         # NoObject
                              THEN @ + 1 ELSE @,
                        !.value =
                            IF r.ppu.cycles_spent = 0 THEN 0
                            ELSE IF ppu.mode = RENDER /\ r.ppu.mode = HBLANK
                              THEN ppu.cycles_spent ELSE @]
    /\ steps' = steps + 1
    /\ UNCHANGED <<cpu, cart>>

StallNext == StallStore \/ StallTick

SpecStall == StallInit /\ [][StallNext]_vars

\* C35: on every visible scanline the pixel transfer ends (LX = 160, mode
\* HBLANK) and cycles_waste is back at 0 before cycles_spent wraps, each
\* buffered object is fetched at most once, the OAM scan runs on exactly
\* the tick with cycles_spent = 79 and on an empty buffer, and update_mode
\* never reaches its fall-through arm.
C35_RenderEndsWithinScanline ==
    [][obs'.act = "tick" =>
        /\ ~ppu'.unreachable
        /\ RunsOamScan(ppu, mmu) <=> (ppu.ly < VISIBLE_LINES /\ ppu.cycles_spent = 79)
        /\ RunsOamScan(ppu, mmu) => ppu.sprite_buffer = << >>
        /\ (ppu.ly < VISIBLE_LINES /\ ppu.cycles_spent = 455) =>
              /\ ppu.lx = WIDTH
              /\ ppu.mode = HBLANK
              /\ ppu.cycles_waste = 0
              /\ obs.value \in 253..454
        /\ ppu'.cycles_spent = 0 => ppu'.cycles_waste = 0
        /\ obs'.count <= Len(ppu.sprite_buffer)
        /\ obs'.count <= 10
      ]_vars

\* A scanline on which all 10 buffered objects were fetched and the window
\* started has ended its pixel transfer more than 100 cycles later than a
\* scanline without stalls would (cycles_spent 252), and inside the line.
C35_Witness ==
    /\ obs.act = "tick"
    /\ ppu.mode = HBLANK
    /\ ppu.lx = WIDTH
    /\ obs.count = 10
    /\ ppu.w_present
    /\ obs.value > 352
    /\ obs.value < 455
    /\ ppu.cycles_waste = 0

\* ---------------------------------------------------------------------
\* The joypad: keys pressed and released by the front end while the
\* program selects button groups in FF00 and acknowledges IF.
\* ---------------------------------------------------------------------

MaxJoySteps == 6

\* A, RIGHT, DOWN and Button::UNKNOWN.
JoyButtons == {0, 4, 7, UNKNOWN}

\* The values a program stores in FF00: both groups, directions only,
\* actions only, none.
JoySelects == {\h00, \h20, \h10, \h30}

JoyInit ==
    /\ mmu = MMU_new(BlankImage)
    /\ cpu = CPU_new
    /\ ppu = PPU_new(MMU_new(BlankImage))
    /\ cart = 0
    /\ obs = IdleObs
    /\ steps = 0

\* The call requests interrupt 4: IF bit 4 is set after the call made with
\* IF cleared.
PressRequests(m, button) ==
    is_bit_set(read_byte(press_key(write_byte(m, IO_IF, 0), button), IO_IF), 4)

\* mmu.press_key(button). obs.and_result tells whether the call requested
\* the interrupt; obs.value has bit b set when a request was made for
\* button b since its last release_key; obs.count counts the requests.
JoyPress ==
    /\ steps < MaxJoySteps
    /\ \E button \in JoyButtons :
          /\ mmu' = press_key(mmu, button)
          /\ \E requested \in {PressRequests(mmu, button)} :
                obs' = [obs EXCEPT !.act = "press", !.address = button,
                                   !.and_result = requested,
                                   !.value = IF requested THEN BitOr(@, 2 ^ button) ELSE @,
                                   !.count = IF requested THEN @ + 1 ELSE @]
    /\ steps' = steps + 1
    /\ UNCHANGED <<cpu, ppu, cart>>

\* mmu.release_key(button)
JoyRelease ==
    /\ steps < MaxJoySteps
    /\ \E button \in JoyButtons :
          /\ mmu' = release_key(mmu, button)
          /\ obs' = [obs EXCEPT !.act = "release", !.address = button,
                                !.and_result = FALSE,
                                !.value = IF is_bit_set(@, button) THEN @ - 2 ^ button ELSE @]
    /\ steps' = steps + 1
    /\ UNCHANGED <<cpu, ppu, cart>>

\* The program stores a selection in FF00.
JoySelect ==
    /\ steps < MaxJoySteps
    /\ \E v \in JoySelects : mmu' = write_byte(mmu, IO_JOYP, v)
    /\ obs' = [obs EXCEPT !.act = "select", !.and_result = FALSE]
    /\ steps' = steps + 1
    /\ UNCHANGED <<cpu, ppu, cart>>

\* The program clears a requested joypad interrupt in IF.
JoyAcknowledge ==
    /\ steps < MaxJoySteps
    /\ is_bit_set(read_byte(mmu, IO_IF), 4)
    /\ mmu' = write_byte(mmu, IO_IF, read_byte(mmu, IO_IF) - 16)
    /\ obs' = [obs EXCEPT !.act = "acknowledge", !.and_result = FALSE]
    /\ steps' = steps + 1
    /\ UNCHANGED <<cpu, ppu, cart>>

JoyNext == JoyPress \/ JoyRelease \/ JoySelect \/ JoyAcknowledge

SpecJoypad == JoyInit /\ [][JoyNext]_vars

\* The latch bit of a button is 1 (released); UNKNOWN has no latch bit.
LatchHigh(m, button) == button # UNKNOWN /\ (m.joypad \div 2 ^ button) % 2 = 1

\* At least one select line of FF00 is low.
SelectLow(m) ==
    \/ (read_byte(m, IO_JOYP) \div 16) % 2 = 0
    \/ (read_byte(m, IO_JOYP) \div 32) % 2 = 0

\* C24: press_key(button) requests the joypad interrupt (IF bit 4) iff the
\* button's latch bit goes from 1 to 0 in the call and a select line of
\* FF00 is low; a press of a button already pressed changes nothing, so no
\* button gets a second request before release_key has set its bit again.
C24_PressRequestsOnLatchFall ==
    [][obs'.act = "press" =>
        /\ obs'.and_result <=>
              /\ LatchHigh(mmu, obs'.address)
              /\ ~LatchHigh(mmu', obs'.address)
              /\ SelectLow(mmu)
        /\ obs'.and_result => is_bit_set(read_byte(mmu', IO_IF), 4)
        /\ ~LatchHigh(mmu, obs'.address) => mmu' = mmu
        /\ obs'.and_result => ~is_bit_set(obs.value, obs'.address)
        /\ obs'.address # UNKNOWN => ~LatchHigh(mmu', obs'.address)
      ]_vars
    /\ [][obs'.act = "release" /\ obs'.address # UNKNOWN =>
            LatchHigh(mmu', obs'.address)]_vars

\* A button is requested, released and requested again.
C24_Witness ==
    /\ obs.act = "press"
    /\ obs.and_result
    /\ obs.count = 2
    /\ mmu.joypad = \hFF - 2 ^ obs.address

\* A press of a released button with no select line low requests nothing.
C24_NoSelect ==
    /\ obs.act = "press"
    /\ ~obs.and_result
    /\ ~SelectLow(mmu)
    /\ obs.address # UNKNOWN
    /\ obs.count = 0
    /\ mmu.joypad = \hFF - 2 ^ obs.address

\* ---------------------------------------------------------------------
\* Echo RAM: program stores to E000-FDFF and to the work RAM below it.
\* ---------------------------------------------------------------------

MaxEchoSteps == 3

ECHO_START == \hE000
ECHO_END == \hFE00
ECHO_OFFSET == \h2000

\* Echo addresses at both ends of the range and around F000.
EchoSamples == {\hE000, \hE001, \hEFFF, \hF000, \hFDFE, \hFDFF}

EchoValues == {\h00, \h5A, \hFF}

EchoInit ==
    /\ mmu = MMU_new(BlankImage)
    /\ cpu = CPU_new
    /\ ppu = PPU_new(MMU_new(BlankImage))
    /\ cart = 0
    /\ obs = IdleObs
    /\ steps = 0

\* mmu.write_byte(a, v) for an echo address a.
EchoWrite ==
    /\ steps < MaxEchoSteps
    /\ \E a \in EchoSamples, v \in EchoValues :
          /\ mmu' = write_byte(mmu, a, v)
          /\ obs' = [obs EXCEPT !.act = "echo", !.address = a, !.value = v]
    /\ steps' = steps + 1
    /\ UNCHANGED <<cpu, ppu, cart>>

\* mmu.write_byte(a - 0x2000, v) for an echo address a.
WorkRamWrite ==
    /\ steps < MaxEchoSteps
    /\ \E a \in EchoSamples, v \in EchoValues :
          /\ mmu' = write_byte(mmu, a - ECHO_OFFSET, v)
          /\ obs' = [obs EXCEPT !.act = "wram", !.address = a - ECHO_OFFSET, !.value = v]
    /\ steps' = steps + 1
    /\ UNCHANGED <<cpu, ppu, cart>>

EchoNext == EchoWrite \/ WorkRamWrite

SpecEcho == EchoInit /\ [][EchoNext]_vars

\* C25: a value written to an echo address a in E000-FDFF is read back at
\* a - 0x2000, a value written to a - 0x2000 is read back at a, and the two
\* addresses read the same value in every state.
C25_EchoMirrorsWorkRam ==
    /\ \A a \in EchoSamples :
          /\ a >= ECHO_START /\ a < ECHO_END
          /\ read_byte(mmu, a) = read_byte(mmu, a - ECHO_OFFSET)
    /\ obs.act = "echo" =>
          /\ read_byte(mmu, obs.address - ECHO_OFFSET) = obs.value
          /\ read_byte(mmu, obs.address) = obs.value
    /\ obs.act = "wram" =>
          /\ read_byte(mmu, obs.address + ECHO_OFFSET) = obs.value
          /\ read_byte(mmu, obs.address) = obs.value

\* A non-zero value stored at the last echo address is read at DDFF, over
\* a different value stored there before.
C25_Witness ==
    /\ obs.act = "echo"
    /\ obs.address = \hFDFF
    /\ obs.value = \h5A
    /\ steps = 2
    /\ read_byte(mmu, \hDDFF) = \h5A
    /\ read_byte(mmu, \hE000) = \hFF

\* A value stored in work RAM is read at its echo address.
C25_WorkRamCase ==
    /\ obs.act = "wram"
    /\ obs.address = \hC000
    /\ read_byte(mmu, \hE000) = \hFF

----------------------------------------------------------------------------
(* MBC1 ROM banking: the controller's own read_byte and write_byte on      *)
(* cartridges of 4, 32 and 128 banks                                        *)

MaxMbc1Steps == 3

\* Byte MARK of bank b of a marked image.
BankMark(b) == \h80 + b

\* An MBC1 image with ROM size code `code`, no RAM, and every bank marked.
MarkedRom(type, code) ==
    (\h0147 :> type) @@ (\h0148 :> code) @@
    [a \in {BANK_SIZE * b + MARK : b \in 0..(RomBanksOf(code) - 1)} |->
        BankMark(a \div BANK_SIZE)]

Mbc1SizeCodes == {\h01, \h04, \h06}

\* Stores to the ROM bank register, the RAM bank / upper bits register and
\* the banking mode register.
Mbc1Writes ==
    {<<\h2000, v>> : v \in {\h00, \h01, \h03, \h10, \h12, \h1F, \h20, \h21, \h40, \hE0, \hFF}}
      \cup {<<\h4000, v>> : v \in {\h00, \h01, \h03}}
      \cup {<<\h6000, \h01>>}

Mbc1Reads == {MARK, BANK_SIZE + MARK}

Mbc1Init ==
    /\ \E code \in Mbc1SizeCodes : cart = MBC1_new(MarkedRom(\h01, code))
    /\ mmu = MMU_new(BlankImage)
    /\ cpu = CPU_new
    /\ ppu = PPU_new(MMU_new(BlankImage))
    /\ obs = IdleObs
    /\ steps = 0

\* MBC1::write_byte
Mbc1Write ==
    /\ steps < MaxMbc1Steps
    /\ \E w \in Mbc1Writes :
          /\ cart' = MBC1_write_byte(cart, w[1], w[2])
          /\ obs' = [obs EXCEPT !.act = "cart_write", !.address = w[1], !.value = w[2]]
    /\ steps' = steps + 1
    /\ UNCHANGED <<mmu, cpu, ppu>>

\* MBC1::read_byte; obs.value is the byte returned, StackOverflow when the
\* call does not return.
Mbc1Read ==
    /\ steps < MaxMbc1Steps
    /\ \E a \in Mbc1Reads :
          obs' = [obs EXCEPT !.act = "cart_read", !.address = a,
                             !.value = MBC1_read_byte(cart, a)]
    /\ steps' = steps + 1
    /\ UNCHANGED <<mmu, cpu, ppu, cart>>

Mbc1Next == Mbc1Write \/ Mbc1Read

SpecMbc1 == Mbc1Init /\ [][Mbc1Next]_vars

\* The bank the 5-bit selector and the upper bits name on a cartridge of
\* `banks` banks: bank 1 for selector 0, else the selector masked to the
\* cartridge size; ORed with the upper bits, which the controller places
\* from bit 4 on, on cartridges of more than 32 banks.
Mbc1Bank(selector, upper, banks) ==
    LET high == IF banks > 32 THEN 16 * (upper % 4) ELSE 0
    IN  IF selector % 32 = 0 THEN BitOr(1, high)
        ELSE BitOr((selector % 32) % Min(banks, 32), high)

\* C26: a read of 4000-7FFF returns the byte of bank 1 (with the upper bits
\* on cartridges of more than 32 banks) when the 5-bit ROM bank selector
\* is 0, never of bank 0, and else of the bank named by the selector masked
\* with min(banks, 32) - 1 and the upper bits.
C26_Mbc1BankSelection ==
    [][(obs'.act = "cart_read" /\ obs'.address \in \h4000..\h7FFF) =>
          obs'.value = BankMark(Mbc1Bank(cart.rom_bank_register,
                                         cart.ram_bank_register,
                                         get_total_rom_banks(cart)))
      ]_vars

----------------------------------------------------------------------------
(* MBC3: the controller's own read_byte and write_byte                     *)

\* unimplemented!("Real Time Clock!")
RTC_MESSAGE == <<"not implemented: ", "Real Time Clock!">>

\* The panic of an index past the end of a Vec.
out_of_bounds(len, index) == <<"index out of bounds", len, index>>

\* rom_data.len() of a complete image: the banks its header declares.
rom_len(data) == BANK_SIZE * RomBanksOf(DataAt(data, \h0148))

MBC3_new(data) ==
    [ ram_enable        |-> FALSE,
      ram_bank_register |-> \h00,
      rom_bank_register |-> \h00,
      ram_data          |-> << >>,
      ram_len           |-> \h0800 * RamBanksOf(DataAt(data, \h0149)),
      rom_data          |-> data ]

\* rom_data[index]
MBC3_rom_at(c, index) ==
    IF index >= rom_len(c.rom_data)
      THEN [value |-> 0, panic |-> out_of_bounds(rom_len(c.rom_data), index)]
      ELSE [value |-> DataAt(c.rom_data, index), panic |-> << >>]

\* ram_data[index]
MBC3_ram_at(c, index) ==
    IF index >= c.ram_len
      THEN [value |-> 0, panic |-> out_of_bounds(c.ram_len, index)]
      ELSE [value |-> DataAt(c.ram_data, index), panic |-> << >>]

\* match self.rom_bank_register.bitand(0x07) { 0x00 => 0x01, val => val }
MBC3_rom_bank_number(c) ==
    IF BitAnd(c.rom_bank_register, \h07) = 0 THEN 1
    ELSE BitAnd(c.rom_bank_register, \h07)

\* The value of read_byte, or the panic that ends it.
MBC3_read_byte(c, address) ==
    IF address < \h4000 THEN MBC3_rom_at(c, address)
    ELSE IF address < \h8000
      THEN MBC3_rom_at(c, \h4000 * MBC3_rom_bank_number(c) + address - \h4000)
    ELSE IF ~c.ram_enable THEN [value |-> \hFF, panic |-> << >>]
    ELSE IF BitAnd(c.ram_bank_register, \h0F) < 4
      THEN MBC3_ram_at(c, \h2000 * BitAnd(c.ram_bank_register, \h0F)
                            + address - \hA000)
    ELSE [value |-> 0, panic |-> RTC_MESSAGE]

\* ram_data[index] = value
MBC3_ram_store(c, index, value) ==
    IF index >= c.ram_len
      THEN [cart |-> c, panic |-> out_of_bounds(c.ram_len, index)]
      ELSE [cart |-> [c EXCEPT !.ram_data =
                         Sparse([i \in (DOMAIN c.ram_data) \cup {index} |->
                                    IF i = index THEN value ELSE c.ram_data[i]])],
            panic |-> << >>]

\* The controller after write_byte, or the panic that ends it.
MBC3_write_byte(c, address, value) ==
    IF address < \h2000
      THEN [cart |-> [c EXCEPT !.ram_enable = BitAnd(value, \h0F) = \h0A],
            panic |-> << >>]
    ELSE IF address < \h4000
      THEN [cart |-> [c EXCEPT !.rom_bank_register = value], panic |-> << >>]
    ELSE IF address < \h6000
      THEN [cart |-> [c EXCEPT !.ram_bank_register = value], panic |-> << >>]
    ELSE IF address < \h8000 THEN [cart |-> c, panic |-> << >>]
    ELSE IF ~c.ram_enable THEN [cart |-> c, panic |-> << >>]
    ELSE IF BitAnd(c.ram_bank_register, \h0F) < 4
      THEN MBC3_ram_store(c, \h2000 * BitAnd(c.ram_bank_register, \h0F)
                               + address - \hA000, value)
    ELSE [cart |-> c, panic |-> RTC_MESSAGE]

\* The abort of a call chain that never returns, and the panic of a
\* remainder by zero.
STACK_OVERFLOW == <<"thread 'main' has overflowed its stack">>
REM_BY_ZERO == <<"attempt to calculate the remainder with a divisor of zero">>

\* MBC1::read_byte with the panics of its indexing and remainder: the value
\* returned, or the panic that ends the call.
MBC1_read_outcome(c, address) ==
    IF address >= \hA000 /\ ~c.ram_enable THEN [value |-> \hFF, panic |-> << >>]
    ELSE IF c.banking_mode THEN [value |-> 0, panic |-> STACK_OVERFLOW]
    ELSE IF address < \h4000 THEN MBC3_rom_at(c, address)
    ELSE IF address < \h8000
      THEN LET low == IF c.rom_bank_register = 0 THEN 1
                      ELSE BitAnd(c.rom_bank_register,
                                  Min(get_total_rom_banks(c), 32) - 1)
               high == IF get_total_rom_banks(c) <= 32 THEN 0
                       ELSE (BitAnd(c.ram_bank_register, 3) * 16) % 256
           IN  MBC3_rom_at(c, \h4000 * BitOr(low, high) + address - \h4000)
    ELSE IF Min(\h2000, \h0800 * get_total_ram_banks(c)) = 0
      THEN [value |-> 0, panic |-> REM_BY_ZERO]
    ELSE MBC3_ram_at(c, MBC1_ram_index(c, address))

\* MBC1::write_byte with the same panics: the controller after the call, or
\* the panic that ends it.
MBC1_write_outcome(c, address, value) ==
    IF address < \h8000 \/ ~c.ram_enable
      THEN [cart |-> MBC1_write_byte(c, address, value), panic |-> << >>]
    ELSE IF c.banking_mode THEN [cart |-> c, panic |-> STACK_OVERFLOW]
    ELSE IF Min(\h2000, \h0800 * get_total_ram_banks(c)) = 0
      THEN [cart |-> c, panic |-> REM_BY_ZERO]
    ELSE MBC3_ram_store(c, MBC1_ram_index(c, address), value)

MBC5_new(data) ==
    [ ram_enable           |-> FALSE,
      ram_bank_register    |-> \h00,
      rom_bank_register_lo |-> \h00,
      rom_bank_register_hi |-> \h00,
      ram_data             |-> << >>,
      ram_len              |-> \h0800 * RamBanksOf(DataAt(data, \h0149)),
      rom_data             |-> data ]

\* u16::from_be_bytes([rom_bank_register_hi, rom_bank_register_lo]) & 0x01FF
MBC5_rom_bank_number(c) ==
    (256 * c.rom_bank_register_hi + c.rom_bank_register_lo) % 512

MBC5_read_byte(c, address) ==
    IF address < \h4000 THEN MBC3_rom_at(c, address)
    ELSE IF address < \h8000
      THEN MBC3_rom_at(c, \h4000 * MBC5_rom_bank_number(c) + address - \h4000)
    ELSE IF ~c.ram_enable THEN [value |-> \hFF, panic |-> << >>]
    ELSE MBC3_ram_at(c, \h2000 * BitAnd(c.ram_bank_register, \h0F)
                          + address - \hA000)

MBC5_write_byte_enable_whole_byte(c, address, value) ==
    IF address < \h2000
      THEN [cart |-> [c EXCEPT !.ram_enable = (value = \h0A)], panic |-> << >>]
    ELSE IF address < \h3000
      THEN [cart |-> [c EXCEPT !.rom_bank_register_lo = value], panic |-> << >>]
    ELSE IF address < \h4000
      THEN [cart |-> [c EXCEPT !.rom_bank_register_hi = value], panic |-> << >>]
    ELSE IF address < \h6000
      THEN [cart |-> [c EXCEPT !.ram_bank_register = value], panic |-> << >>]
    ELSE IF address < \h8000 THEN [cart |-> c, panic |-> << >>]
    ELSE IF ~c.ram_enable THEN [cart |-> c, panic |-> << >>]
    ELSE MBC3_ram_store(c, \h2000 * BitAnd(c.ram_bank_register, \h0F)
                             + address - \hA000, value)

MBC5_write_byte(c, address, value) ==
    IF address < \h2000
      THEN [cart |-> [c EXCEPT !.ram_enable = BitAnd(value, \h0F) = \h0A],
            panic |-> << >>]
    ELSE IF address < \h3000
      THEN [cart |-> [c EXCEPT !.rom_bank_register_lo = value], panic |-> << >>]
    ELSE IF address < \h4000
      THEN [cart |-> [c EXCEPT !.rom_bank_register_hi = value], panic |-> << >>]
    ELSE IF address < \h6000
      THEN [cart |-> [c EXCEPT !.ram_bank_register = value], panic |-> << >>]
    ELSE IF address < \h8000 THEN [cart |-> c, panic |-> << >>]
    ELSE IF ~c.ram_enable THEN [cart |-> c, panic |-> << >>]
    ELSE MBC3_ram_store(c, \h2000 * BitAnd(c.ram_bank_register, \h0F)
                             + address - \hA000, value)

\* cartridge::create: the controller chosen by header byte 0x0147.
create(data) ==
    CASE DataAt(data, \h0147) \in {\h01, \h02, \h03} ->
             [kind |-> "MBC1", mbc |-> MBC1_new(data)]
      [] DataAt(data, \h0147) \in {\h11, \h12, \h13} ->
             [kind |-> "MBC3", mbc |-> MBC3_new(data)]
      [] DataAt(data, \h0147) \in {\h19, \h1A, \h1B} ->
             [kind |-> "MBC5", mbc |-> MBC5_new(data)]

\* Cartridge::read_byte and write_byte of the boxed controller.
Cartridge_read_byte(k, address) ==
    CASE k.kind = "MBC1" -> MBC1_read_outcome(k.mbc, address)
      [] k.kind = "MBC3" -> MBC3_read_byte(k.mbc, address)
      [] k.kind = "MBC5" -> MBC5_read_byte(k.mbc, address)

Cartridge_write_byte(k, address, value) ==
    CASE k.kind = "MBC1" -> MBC1_write_outcome(k.mbc, address, value)
      [] k.kind = "MBC3" -> MBC3_write_byte(k.mbc, address, value)
      [] k.kind = "MBC5" -> MBC5_write_byte(k.mbc, address, value)

MaxMbc3Steps == 4

\* MBC3 images: ROM of 128 or 4 banks, RAM of 32 KiB or 8 KiB.
Mbc3Images ==
    { MarkedRom(\h13, \h06) @@ (\h0149 :> \h03),
      MarkedRom(\h13, \h06) @@ (\h0149 :> \h02),
      MarkedRom(\h13, \h01) @@ (\h0149 :> \h03) }

Mbc3Writes ==
    {<<\h0000, \h0A>>, <<\h0000, \h00>>, <<\h6000, \h01>>,
     <<\hA000, \h5A>>, <<\hBFFF, \h77>>}
      \cup {<<\h2000, v>> : v \in {\h00, \h01, \h07, \h08, \h45, \h7F, \h80}}
      \cup {<<\h4000, v>> : v \in {\h00, \h01, \h03, \h08, \h0C}}

Mbc3Reads == {MARK, BANK_SIZE + MARK, \hA000, \hBFFF}

Mbc3Init ==
    /\ \E data \in Mbc3Images : cart = MBC3_new(data)
    /\ mmu = MMU_new(BlankImage)
    /\ cpu = CPU_new
    /\ ppu = PPU_new(MMU_new(BlankImage))
    /\ obs = IdleObs
    /\ steps = 0

\* MBC3::write_byte; obs.panic is the panic message when the call panics.
Mbc3Write ==
    /\ steps < MaxMbc3Steps
    /\ obs.panic = << >>
    /\ \E w \in Mbc3Writes :
          \E r \in {MBC3_write_byte(cart, w[1], w[2])} :
             /\ cart' = r.cart
             /\ obs' = [obs EXCEPT !.act = "cart_write", !.address = w[1],
                                   !.value = w[2], !.panic = r.panic]
    /\ steps' = steps + 1
    /\ UNCHANGED <<mmu, cpu, ppu>>

\* MBC3::read_byte; obs.value is the byte returned.
Mbc3Read ==
    /\ steps < MaxMbc3Steps
    /\ obs.panic = << >>
    /\ \E a \in Mbc3Reads :
          \E r \in {MBC3_read_byte(cart, a)} :
             obs' = [obs EXCEPT !.act = "cart_read", !.address = a,
                                !.value = r.value, !.panic = r.panic]
    /\ steps' = steps + 1
    /\ UNCHANGED <<mmu, cpu, ppu, cart>>

Mbc3Next == Mbc3Write \/ Mbc3Read

SpecMbc3 == Mbc3Init /\ [][Mbc3Next]_vars

\* C27: after a write of v to 2000-3FFF a read of 4000-7FFF returns the
\* byte of bank v & 0x7F, or of bank 1 when that is 0.
C27_Mbc3SevenBitBank ==
    [][(obs'.act = "cart_read" /\ obs'.address \in \h4000..\h7FFF
          /\ get_total_rom_banks(cart) = 128) =>
          /\ obs'.panic = << >>
          /\ obs'.value = BankMark(IF cart.rom_bank_register % 128 = 0 THEN 1
                                   ELSE cart.rom_bank_register % 128)
      ]_vars

\* The index into ram_data of address a in RAM bank `bank`.
Mbc3RamIndex(bank, a) == \h2000 * bank + a - \hA000

\* C28: an access to A000-BFFF with RAM enabled ends in the 'not
\* implemented' panic, with nothing returned or stored, when the RAM bank
\* register holds 0x08-0x0C, and with register values 0x00-0x03 it reads
\* or writes the addressed byte of RAM bank 0-3 without error.
C28_Mbc3RtcNotImplemented ==
    [][(obs'.act \in {"cart_read", "cart_write"}
          /\ obs'.address \in \hA000..\hBFFF /\ cart.ram_enable) =>
        /\ cart.ram_bank_register \in \h08..\h0C =>
              /\ obs'.panic = RTC_MESSAGE
              /\ cart' = cart
        /\ cart.ram_bank_register \in \h00..\h03 =>
              /\ obs'.panic = << >>
              /\ obs'.act = "cart_read" =>
                    /\ cart' = cart
                    /\ obs'.value =
                         DataAt(cart.ram_data,
                                Mbc3RamIndex(cart.ram_bank_register, obs'.address))
              /\ obs'.act = "cart_write" =>
                    \A i \in (DOMAIN cart.ram_data) \cup (DOMAIN cart'.ram_data)
                               \cup {Mbc3RamIndex(cart.ram_bank_register, obs'.address)} :
                       DataAt(cart'.ram_data, i) =
                         IF i = Mbc3RamIndex(cart.ram_bank_register, obs'.address)
                           THEN obs'.value ELSE DataAt(cart.ram_data, i)
      ]_vars

----------------------------------------------------------------------------
(* External RAM gating: MBC1, MBC3 and MBC5 cartridges with 8 KiB or       *)
(* 32 KiB of RAM                                                            *)

MaxGateSteps == 5

GateImages ==
    { MarkedRom(type, \h01) @@ (\h0149 :> ram) :
          type \in {\h03, \h13, \h1B}, ram \in {\h02, \h03} }

\* Stores to the RAM gate (enabling, disabling, enabling with a high
\* nibble), to the RAM bank and banking mode registers, and to external RAM.
GateWrites ==
    { <<\h0000, \h0A>>, <<\h1FFF, \hA0>>, <<\h1000, \h1A>>,
      <<\h4000, \h01>>, <<\h6000, \h01>>,
      <<\hA000, \h5A>>, <<\hBFFF, \h77>> }

GateReads == {\hA000, \hBFFF}

GateInit ==
    /\ \E data \in GateImages : cart = create(data)
    /\ mmu = MMU_new(BlankImage)
    /\ cpu = CPU_new
    /\ ppu = PPU_new(MMU_new(BlankImage))
    /\ obs = IdleObs
    /\ steps = 0

\* Cartridge::write_byte. obs remembers the last store made to external RAM
\* with the gate open: and_result that there is one and that no register
\* other than the gate has been written since, count its address, cycles
\* its value, opcode the number of gate-closing writes since.
GateWrite ==
    /\ steps < MaxGateSteps
    /\ obs.panic = << >>
    /\ \E w \in GateWrites :
          \E r \in {Cartridge_write_byte(cart, w[1], w[2])} :
             /\ cart' = [cart EXCEPT !.mbc = r.cart]
             /\ obs' =
                  IF w[1] >= \hA000 /\ cart.mbc.ram_enable
                    THEN [obs EXCEPT !.act = "cart_write", !.address = w[1],
                                     !.value = w[2], !.panic = r.panic,
                                     !.and_result = (r.panic = << >>),
                                     !.count = w[1], !.cycles = w[2], !.opcode = 0]
                  ELSE IF w[1] >= \h2000 /\ w[1] < \h8000
                    THEN [obs EXCEPT !.act = "cart_write", !.address = w[1],
                                     !.value = w[2], !.panic = r.panic,
                                     !.and_result = FALSE]
                  ELSE [obs EXCEPT !.act = "cart_write", !.address = w[1],
                                   !.value = w[2], !.panic = r.panic,
                                   !.opcode = IF w[1] < \h2000 /\ ~r.cart.ram_enable
                                                   /\ cart.mbc.ram_enable
                                                THEN @ + 1 ELSE @]
    /\ steps' = steps + 1
    /\ UNCHANGED <<mmu, cpu, ppu>>

\* Cartridge::read_byte; obs.value is the byte returned.
GateRead ==
    /\ steps < MaxGateSteps
    /\ obs.panic = << >>
    /\ \E a \in GateReads :
          \E r \in {Cartridge_read_byte(cart, a)} :
             obs' = [obs EXCEPT !.act = "cart_read", !.address = a,
                                !.value = r.value, !.panic = r.panic]
    /\ steps' = steps + 1
    /\ UNCHANGED <<mmu, cpu, ppu, cart>>

GateNext == GateWrite \/ GateRead

SpecGate == GateInit /\ [][GateNext]_vars

\* C34: the gate is closed after construction; a write of v to 0000-1FFF
\* opens it iff v & 0x0F = 0x0A and changes nothing else, and no other
\* access moves it; with the gate closed a read of A000-BFFF returns 0xFF
\* and a write to A000-BFFF leaves the whole controller (RAM and registers)
\* as it was; and a byte stored with the gate open is returned by a read of
\* the same address once the gate is open again, when only the gate has
\* been written in between.
C34_RamGate ==
    [][obs'.act \in {"cart_read", "cart_write"} =>
        /\ obs.act = "init" => ~cart.mbc.ram_enable
        /\ (obs'.act = "cart_write" /\ obs'.address < \h2000) =>
              /\ cart'.mbc.ram_enable = (obs'.value % 16 = 10)
              /\ [cart'.mbc EXCEPT !.ram_enable = cart.mbc.ram_enable] = cart.mbc
              /\ obs'.panic = << >>
        /\ ~(obs'.act = "cart_write" /\ obs'.address < \h2000) =>
              cart'.mbc.ram_enable = cart.mbc.ram_enable
        /\ (obs'.address >= \hA000 /\ ~cart.mbc.ram_enable) =>
              /\ obs'.panic = << >>
              /\ cart' = cart
              /\ obs'.act = "cart_read" => obs'.value = \hFF
        /\ (obs'.act = "cart_read" /\ cart.mbc.ram_enable
              /\ obs.and_result /\ obs'.address = obs.count) =>
              /\ obs'.panic = << >>
              /\ obs'.value = obs.cycles
      ]_vars

\* A byte stored at BFFF has been read back after the gate was closed and
\* opened again, on an MBC5 cartridge.
C34_Witness ==
    /\ obs.act = "cart_read"
    /\ cart.kind = "MBC5"
    /\ cart.mbc.ram_enable
    /\ obs.and_result /\ obs.opcode >= 1
    /\ obs.address = \hBFFF /\ obs.count = \hBFFF
    /\ obs.value = \h77
    /\ obs.panic = << >>

\* A read with the gate closed has returned 0xFF from a cell that holds
\* another byte.
C34_ClosedRead ==
    /\ obs.act = "cart_read"
    /\ ~cart.mbc.ram_enable
    /\ obs.and_result /\ obs.address = obs.count
    /\ obs.cycles = \h5A
    /\ obs.value = \hFF

----------------------------------------------------------------------------
(* The serial debug hook: programs that store to FF01 and FF02, with the    *)
(* stack at the top of high RAM or in the I/O registers                     *)

MaxSerialSteps == 16
MaxSerialRequests == 2

SERIAL_DATA == \hFF01
SERIAL_CONTROL == \hFF02
SERIAL_START == \h81
SERIAL_BODY == \h0180

SerialStackTops == {\hFFFE, \hFF04}
SerialControls == {\h81, \h80}

\* IE = 1, the stack, FF01 = 'A', EI and a jump to SERIAL_BODY.
SerialPrologue(sp) ==
    SetReg(\hFF, \h01) \o SetSP(sp) \o SetReg(\h01, \h41) \o <<OP_EI>>

\* NOP ; LD A,control ; LDH (02),A ; NOP ; HALT
SerialBody(control) ==
    <<OP_NOP>> \o SetReg(\h02, control) \o <<OP_NOP, OP_HALT>>

\* The image with the prologue at the entry point, the body at
\* SERIAL_BODY and RETI at the VBlank vector.
SerialImage(sp, control) ==
    LET prologue == SerialPrologue(sp)
        jump == <<OP_JR, SERIAL_BODY - (ENTRY + Len(prologue) + 2)>>
        head == prologue \o jump
        body == SerialBody(control)
    IN  Sparse([a \in {\h0040} \cup {ENTRY + i - 1 : i \in 1..Len(head)}
                                  \cup {SERIAL_BODY + i - 1 : i \in 1..Len(body)} |->
                   IF a = \h0040 THEN OP_RETI
                   ELSE IF a < SERIAL_BODY THEN head[a - ENTRY + 1]
                   ELSE body[a - SERIAL_BODY + 1]])

SerialInit ==
    /\ \E sp \in SerialStackTops, control \in SerialControls :
          mmu = MMU_new(SerialImage(sp, control))
    /\ cpu = CPU_new
    /\ ppu = PPU_new(MMU_new(BlankImage))
    /\ cart = 0
    /\ obs = IdleObs
    /\ steps = 0

\* One cpu.execute_next; obs.count counts the characters printed so far
\* and obs.value is the last one.
SerialStep ==
    /\ steps < MaxSerialSteps
    /\ \E r \in {execute_next(cpu, mmu)} :
           /\ r.panic = << >>
           /\ cpu' = r.cpu
           /\ mmu' = r.mmu
           /\ obs' = [obs EXCEPT !.act = "step", !.opcode = r.opcode,
                                 !.cycles = r.cycles,
                                 !.was_halted = cpu.low_power_mode,
                                 !.count = @ + Len(r.out),
                                 !.value = IF r.out = << >> THEN @ ELSE r.out[1]]
    /\ steps' = steps + 1
    /\ UNCHANGED <<ppu, cart>>

\* The PPU requests the VBlank interrupt between two CPU steps.
SerialRequest ==
    /\ obs.address < MaxSerialRequests
    /\ obs.act = "step"
    /\ mmu' = request_interrupt(mmu, 0)
    /\ obs' = [obs EXCEPT !.act = "request", !.address = @ + 1]
    /\ UNCHANGED <<cpu, ppu, cart, steps>>

SerialNext == SerialStep \/ SerialRequest

SpecSerial == SerialInit /\ [][SerialNext]_vars

\* The step from (c, m) executes LDH (02),A with A = 0x81.
StartsTransfer(c, m) ==
    /\ execute_interrupts(c, m).cycles = 0
    /\ ~execute_interrupts(c, m).cpu.low_power_mode
    /\ read_byte(m, c.pc) = OP_LDH_A8_A
    /\ read_byte(m, (c.pc + 1) % 65536) = \h02
    /\ c.a = SERIAL_START

\* C29: after every CPU step, a dispatching or idling one included, FF02
\* does not read 0x81; a step prints at most one character, and the step
\* that stores 0x81 in FF02 prints the byte of FF01 once.
C29_SerialHookAfterEveryStep ==
    [][obs'.act = "step" =>
        /\ read_byte(mmu', SERIAL_CONTROL) # SERIAL_START
        /\ obs'.count \in {obs.count, obs.count + 1}
        /\ StartsTransfer(cpu, mmu) =>
              /\ obs'.count = obs.count + 1
              /\ obs'.value = read_byte(mmu, SERIAL_DATA)
              /\ read_byte(mmu', SERIAL_CONTROL) = \h00
      ]_vars

----------------------------------------------------------------------------
(***************************************************************************)
(* The per-cycle closure of the main loop around an OAM scan, with the CPU  *)
(* storing to OAM or starting an OAM DMA between two cycles                 *)
(***************************************************************************)

MaxRaceTicks == 1100

SUB_OVERFLOW == <<"attempt to subtract with overflow">>

\* The program: object 0 on lines 0..7 at X = 20, a DMA source page in work
\* RAM whose first entry has Y = 200, and objects enabled.
RaceProgram ==
    << <<OamEntry(0), 16>>, <<OamEntry(0) + 1, 20>>,
       <<WRAM_BASE, 200>>, <<WRAM_BASE + 1, 20>>, <<LCDC, \h93>> >>

\* The store the CPU makes during the run, and the cycles before which it
\* may make it: 640 cycles before the OAM scan of line 2 and its pixel
\* transfer, and between the OAM scan of line 1 and its pixel transfer.
RaceWrites ==
    { <<OamEntry(0), 200>>, <<OamEntry(0), 0>>, <<OamEntry(0) + 1, 200>>,
      <<OamEntry(0) + 1, 14>>, <<IO_DMA, WRAM_BASE \div 256>> }
RaceWriteTicks == (350..380) \cup (534..560)

RaceInit ==
    /\ mmu = MMU_new(BlankImage)
    /\ cpu = CPU_new
    /\ ppu = PPU_new(MMU_new(BlankImage))
    /\ cart = 0
    /\ obs = IdleObs
    /\ steps = 0

\* One store of the program; obs.cycles is the number of stores done.
RaceStore ==
    /\ obs.act \in {"init", "store"}
    /\ obs.cycles < Len(RaceProgram)
    /\ \E w \in {RaceProgram[obs.cycles + 1]} :
          mmu' = write_byte(mmu, w[1], w[2])
    /\ obs' = [obs EXCEPT !.act = "store", !.cycles = @ + 1]
    /\ UNCHANGED <<cpu, ppu, cart, steps>>

\* The store of an instruction executed between two passes of the closure;
\* obs.count is the number of such stores made.
RaceWrite ==
    /\ obs.act = "tick"
    /\ obs.count = 0
    /\ steps \in RaceWriteTicks
    /\ \E w \in RaceWrites :
          /\ mmu' = write_byte(mmu, w[1], w[2])
          /\ obs' = [obs EXCEPT !.act = "write", !.count = 1,
                                !.address = w[1], !.value = w[2]]
    /\ UNCHANGED <<cpu, ppu, cart, steps>>

\* The object the sprite fetch of the tick from (p, m) finds, or NoObject
\* when the fetch does not run or finds none.
fetched_object(p, m) ==
    IF sprite_fetch(p, m).runs
      THEN find_object_address(sprite_fetch(p, m).ppu, m)
      ELSE NoObject

\* self.ly + 16 - obj_y of the fetch is below zero.
row_underflows(p, m) ==
    /\ fetched_object(p, m) # NoObject
    /\ read_byte(m, fetched_object(p, m)) > p.ly + 16

\* One pass of the closure: update_timers(1), which completes a running DMA
\* on its 640th call, then ppu.tick. The u8 subtraction of the row panics
\* in a build with overflow checks and wraps in one without.
RaceTick ==
    /\ \/ obs.act \in {"tick", "write"}
       \/ obs.act = "store" /\ obs.cycles = Len(RaceProgram)
    /\ steps < MaxRaceTicks
    /\ ~ppu.unreachable
    /\ \E m1 \in {update_timers(mmu, 1)}, overflow_checks \in BOOLEAN :
          IF overflow_checks /\ row_underflows(ppu, m1)
            THEN /\ mmu' = m1
                 /\ ppu' = ppu
                 /\ obs' = [obs EXCEPT !.act = "panic", !.panic = SUB_OVERFLOW]
            ELSE /\ ppu' = tick(ppu, m1).ppu
                 /\ mmu' = tick(ppu, m1).mmu
                 /\ obs' = [obs EXCEPT !.act = "tick"]
    /\ steps' = steps + 1
    /\ UNCHANGED <<cpu, cart>>

RaceNext == RaceStore \/ RaceWrite \/ RaceTick

SpecRace == RaceInit /\ [][RaceNext]_vars

\* C36: whenever the sprite fetch runs for a buffered object, the Y that
\* object has in OAM at that moment is at most LY + 16, so the row
\* LY + 16 - obj_y does not underflow, and its X gives 1 to 8 pushed
\* entries, whatever the CPU stored to OAM and whichever DMA completed since
\* the scanline's OAM scan.
C36_FetchSeesTheScannedObject ==
    [][obs'.act \in {"tick", "panic"}
         /\ fetched_object(ppu, update_timers(mmu, 1)) # NoObject =>
          /\ read_byte(update_timers(mmu, 1),
                       fetched_object(ppu, update_timers(mmu, 1))) <= ppu.ly + 16
          /\ 8 - (ppu.lx + 8
                    - read_byte(update_timers(mmu, 1),
                                fetched_object(ppu, update_timers(mmu, 1)) + 1)) \in 1..8
      ]_vars

----------------------------------------------------------------------------
(***************************************************************************)
(* ROM banking of MBC1, MBC3 and MBC5 cartridges of 2 to 512 banks          *)
(***************************************************************************)

MaxBankSteps == 3

\* Images without RAM: MBC1 and MBC3 of 2, 4 and 64 banks, MBC5 of 4, 256
\* and 512 banks (bank b marked with the low byte of 0x80 + b).
BankImages ==
    { MarkedRom(type, code) :
          type \in {\h01, \h11}, code \in {\h00, \h01, \h05} }
    \cup { [a \in DOMAIN MarkedRom(\h19, code) |-> MarkedRom(\h19, code)[a] % 256] :
              code \in {\h01, \h07, \h08} }

\* Stores to the ROM bank register (for MBC5 its low and high byte), to the
\* RAM bank / upper bits register and to the banking mode register.
BankWrites ==
    { <<\h2000, v>> : v \in {\h00, \h01, \h03, \h04, \h1F, \h20, \hFF} }
    \cup { <<\h3000, v>> : v \in {\h01, \hFF} }
    \cup { <<\h4000, \h03>>, <<\h6000, \h01>>, <<\h6000, \h00>> }

BankReads == {\h0000 + MARK, \h3FFF, \h4000 + MARK, \h7FFF}

BankInit ==
    /\ \E data \in BankImages : cart = create(data)
    /\ mmu = MMU_new(BlankImage)
    /\ cpu = CPU_new
    /\ ppu = PPU_new(MMU_new(BlankImage))
    /\ obs = IdleObs
    /\ steps = 0

\* Cartridge::write_byte to a banking register.
BankWrite ==
    /\ steps < MaxBankSteps
    /\ obs.panic = << >>
    /\ \E w \in BankWrites :
          \E r \in {Cartridge_write_byte(cart, w[1], w[2])} :
             /\ cart' = [cart EXCEPT !.mbc = r.cart]
             /\ obs' = [obs EXCEPT !.act = "cart_write", !.address = w[1],
                                   !.value = w[2], !.panic = r.panic]
    /\ steps' = steps + 1
    /\ UNCHANGED <<mmu, cpu, ppu>>

\* Cartridge::read_byte of a ROM address; obs.value is the byte returned.
BankRead ==
    /\ steps < MaxBankSteps
    /\ obs.panic = << >>
    /\ \E a \in BankReads :
          \E r \in {Cartridge_read_byte(cart, a)} :
             obs' = [obs EXCEPT !.act = "cart_read", !.address = a,
                                !.value = r.value, !.panic = r.panic]
    /\ steps' = steps + 1
    /\ UNCHANGED <<mmu, cpu, ppu, cart>>

BankNext == BankWrite \/ BankRead

SpecBank == BankInit /\ [][BankNext]_vars

\* C37: every read of 0000-7FFF, after any banking writes, returns a byte
\* of the ROM image: the call ends without an index past the image or any
\* other panic.
C37_RomReadsInsideImage ==
    (obs.act = "cart_read" /\ obs.address < \h8000) => obs.panic = << >>

----------------------------------------------------------------------------
(***************************************************************************)
(* External RAM of MBC1, MBC3 and MBC5 cartridges of every RAM size code    *)
(***************************************************************************)

MaxRamSteps == 4

\* 4-bank images with battery-backed RAM of size code 0x00 to 0x05.
RamImages ==
    { MarkedRom(type, \h01) @@ (\h0149 :> ram) :
          type \in {\h03, \h13, \h1B}, ram \in 0..5 }

\* Stores that open the gate, select a RAM bank and the banking mode, and
\* store to external RAM.
RamWrites ==
    { <<\h0000, \h0A>>, <<\h4000, \h01>>, <<\h4000, \h03>>, <<\h4000, \h0F>>,
      <<\h6000, \h01>>, <<\hA000, \h5A>>, <<\hBFFF, \h77>> }

RamReads == {\hA000, \hBFFF}

RamInit ==
    /\ \E data \in RamImages : cart = create(data)
    /\ mmu = MMU_new(BlankImage)
    /\ cpu = CPU_new
    /\ ppu = PPU_new(MMU_new(BlankImage))
    /\ obs = IdleObs
    /\ steps = 0

\* Cartridge::write_byte; obs.was_halted tells whether the gate was open
\* at the call.
RamWrite ==
    /\ steps < MaxRamSteps
    /\ obs.panic = << >>
    /\ \E w \in RamWrites :
          \E r \in {Cartridge_write_byte(cart, w[1], w[2])} :
             /\ cart' = [cart EXCEPT !.mbc = r.cart]
             /\ obs' = [obs EXCEPT !.act = "cart_write", !.address = w[1],
                                   !.value = w[2], !.panic = r.panic,
                                   !.was_halted = cart.mbc.ram_enable]
    /\ steps' = steps + 1
    /\ UNCHANGED <<mmu, cpu, ppu>>

\* Cartridge::read_byte of an external RAM address.
RamRead ==
    /\ steps < MaxRamSteps
    /\ obs.panic = << >>
    /\ \E a \in RamReads :
          \E r \in {Cartridge_read_byte(cart, a)} :
             obs' = [obs EXCEPT !.act = "cart_read", !.address = a,
                                !.value = r.value, !.panic = r.panic,
                                !.was_halted = cart.mbc.ram_enable]
    /\ steps' = steps + 1
    /\ UNCHANGED <<mmu, cpu, ppu, cart>>

RamNext == RamWrite \/ RamRead

SpecRam == RamInit /\ [][RamNext]_vars

\* C38: every access to A000-BFFF made with the gate open indexes inside
\* the allocated RAM and divides by nothing that is zero: the call ends
\* without panic (the real-time-clock registers of MBC3 aside), whatever
\* the RAM size code and the registers.
C38_RamAccessInsideAllocation ==
    (obs.address >= \hA000 /\ obs.was_halted) => obs.panic \in {<< >>, RTC_MESSAGE}

----------------------------------------------------------------------------
(***************************************************************************)
(* The main loop with the CPU in low-power mode: programs that enable the   *)
(* VBLANK interrupt, clear IF and execute HALT                              *)
(***************************************************************************)

MaxHaltCycles == 70232
MaxHaltSteps == 12

\* IE = 0x01 and IF = 0x00, then HALT with IME clear; the same with EI
\* before HALT and another HALT at the interrupt vectors; IE = 0x01 and HALT
\* with the IF the boot leaves; IE = 0x04 and IF = 0x00, then HALT.
HaltImages ==
    { ImageOf(SetReg(\hFF, \h01) \o SetReg(\h0F, \h00) \o <<OP_HALT>>, OP_RETI),
      ImageOf(SetReg(\hFF, \h01) \o SetReg(\h0F, \h00) \o <<OP_EI, OP_HALT>>, OP_HALT),
      ImageOf(SetReg(\hFF, \h01) \o <<OP_HALT>>, OP_RETI),
      ImageOf(SetReg(\hFF, \h04) \o SetReg(\h0F, \h00) \o <<OP_HALT>>, OP_RETI) }

HaltInit ==
    /\ \E image \in HaltImages :
          /\ mmu = MMU_new(image)
          /\ ppu = PPU_new(MMU_new(image))
    /\ cpu = CPU_new
    /\ cart = 0
    /\ obs = IdleObs
    /\ steps = 0

\* cpu.execute_next. obs.cycles is the number of T-cycles still to run,
\* obs.count the number of T-cycles run since low-power mode was entered,
\* obs.value that number at the step that left it; steps counts the steps
\* that were not idle.
HaltExecute ==
    /\ obs.cycles = 0
    /\ StepModelled(cpu, mmu)
    /\ IF cpu.low_power_mode THEN obs.count < MaxHaltCycles
                             ELSE steps < MaxHaltSteps
    /\ \E r \in {execute_next(cpu, mmu)} :
           /\ cpu' = r.cpu
           /\ mmu' = r.mmu
           /\ obs' = [obs EXCEPT
                        !.act = "execute", !.opcode = r.opcode,
                        !.cycles = r.cycles,
                        !.was_halted = cpu.low_power_mode,
                        !.count = IF r.cpu.low_power_mode /\ cpu.low_power_mode
                                    THEN @ ELSE 0,
                        !.value = IF cpu.low_power_mode /\ ~r.cpu.low_power_mode
                                    THEN obs.count ELSE @]
           /\ steps' = IF cpu.low_power_mode /\ r.cpu.low_power_mode
                         THEN steps ELSE steps + 1
    /\ UNCHANGED <<ppu, cart>>

\* One pass of the per-cycle closure, and the joypad poll of a finished
\* frame.
HaltCycle ==
    /\ obs.cycles > 0
    /\ ~ppu.unreachable
    /\ \E t \in {tick(ppu, update_timers(mmu, 1))} :
           /\ ppu' = t.ppu
           /\ IF t.ppu.frame_ready
                THEN \E down \in KeySets : mmu' = update_joypad(t.mmu, down)
                ELSE mmu' = t.mmu
    /\ obs' = [obs EXCEPT !.act = "cycle", !.cycles = @ - 1,
                          !.count = IF cpu.low_power_mode THEN @ + 1 ELSE @]
    /\ UNCHANGED <<cpu, cart, steps>>

HaltNext == HaltExecute \/ HaltCycle

SpecHalt == HaltInit /\ [][HaltNext]_vars

\* ENABLED <<HaltCycle>>_vars written out: the closure has passes left to
\* run.
CycleDue == obs.cycles > 0 /\ ~ppu.unreachable

\* The loop of main never stops by itself: weak fairness of the CPU step,
\* and of the pass of the closure (a pass that stays due is taken).
SpecHaltFair ==
    /\ SpecHalt
    /\ WF_vars(HaltExecute)
    /\ ([]<>(~CycleDue) \/ []<><<HaltCycle>>_vars)

\* C39: a CPU in low-power mode with IE bit 0 set always leaves it again,
\* and at most one frame of T-cycles (70,224) has run in low-power mode
\* until it does.
C39_HaltedCpuWakes ==
    /\ []<>~(cpu.low_power_mode /\ is_bit_set(MemAt(mmu, IO_IE), 0))
    /\ [](cpu.low_power_mode /\ is_bit_set(MemAt(mmu, IO_IE), 0)
            => obs.count <= FRAME_TICKS)

\* The CPU has left a low-power mode in which more than 70,000 T-cycles
\* passed, its HALT having followed the dispatch of the previous VBLANK.
C39_Witness ==
    /\ obs.act = "execute"
    /\ obs.was_halted /\ ~cpu.low_power_mode
    /\ is_bit_set(MemAt(mmu, IO_IE), 0)
    /\ obs.value > 70000
    /\ obs.value <= FRAME_TICKS

====
